---- MODULE Spec2Model ----
(***************************************************************************)
(* A model of the Tribun-AI courtroom simulator: the stream parser and the *)
(* turn resolver of App.tsx, the TurnManager, the session orchestrator     *)
(* (handleStartSimulation, processAIStream and the user handlers) and the  *)
(* narration queue of services/audioService.ts.                            *)
(*                                                                         *)
(* Text is a sequence of tokens.  A speaker tag such as "[JUEZ]:" is the   *)
(* two tokens "[JUEZ" and "]:", so that a chunk boundary may fall inside a *)
(* tag and a tag may be formed when something between its halves is        *)
(* removed.  Control markers and words are single tokens; " " is white     *)
(* space.  One action is one JavaScript macrotask: a handler or a          *)
(* continuation runs to its next real suspension (network, timer, audio).  *)
(***************************************************************************)
EXTENDS Integers, Sequences, FiniteSets

VARIABLES
    simulationState,   \* App.tsx:39  SimulationState
    simulationConfig,  \* App.tsx:40  the configured userRole, or NULL
    turnManagerRef,    \* App.tsx:74  the role bound in the TurnManager, or NULL
    chatSessionRef,    \* App.tsx:67  NULL, or the session's sessionId outcome
    chatHistory,       \* App.tsx:43  sequence of [speaker, text]
    isLoading,         \* App.tsx:45
    currentTurn,       \* App.tsx:48  Speaker or NULL
    isObjectionPhase,  \* App.tsx:60
    showObjectionOptions, \* App.tsx:62
    isSpeaking,        \* App.tsx:52  fed by onPlayingStateChange
    isTtsEnabled,      \* App.tsx:50
    speakClosureConfig, \* App.tsx:128-141  simulationConfig as captured by
                       \* speakMessagesSequentially (deps: [isTtsEnabled])
    historyLengthBeforeLoadingRef, \* App.tsx:73
    prevIsLoadingRef,  \* App.tsx:70
    stream,            \* the in-flight handleStartSimulation / processAIStream call
    requestsLeft,      \* how many more model requests the run may make
    audio,             \* the AudioService singleton
    evaluation,        \* App.tsx:47  NULL, or the evaluation received
    evaluationCall,    \* the handleEvaluation call: "none" | "pending"
    speech,            \* hooks/useSpeechRecognition.ts: the hook's state and refs
    fnArgs,            \* argument of the pure function being applied
    fnRet,             \* its result
    fnDone             \* whether it has been applied

appVars == <<simulationState, simulationConfig, turnManagerRef, chatSessionRef,
             chatHistory, isLoading, currentTurn, isObjectionPhase,
             showObjectionOptions, isSpeaking, isTtsEnabled,
             speakClosureConfig, historyLengthBeforeLoadingRef, prevIsLoadingRef, stream,
             requestsLeft>>
fnVars == <<fnArgs, fnRet, fnDone>>
evalVars == <<evaluation, evaluationCall>>
hookVars == <<speech>>
vars == <<simulationState, simulationConfig, turnManagerRef, chatSessionRef,
          chatHistory, isLoading, currentTurn, isObjectionPhase,
          showObjectionOptions, isSpeaking, isTtsEnabled,
          speakClosureConfig, historyLengthBeforeLoadingRef, prevIsLoadingRef, stream,
          requestsLeft, audio, evaluation, evaluationCall, speech, fnArgs, fnRet,
          fnDone>>

NULL == "null"

(***************************************************************************)
(* types.ts: Speaker, SimulationState; utils/turnManager.ts: TurnState     *)
(***************************************************************************)
JUEZ == "Juez"
MINISTERIO_PUBLICO == "Ministerio Público"
DEFENSA == "Defensa"
TESTIGO == "Testigo"
PROFESOR == "Profesor"
SECRETARIO == "Secretario"
IMPUTADO == "Imputado"
Speaker == {JUEZ, MINISTERIO_PUBLICO, DEFENSA, TESTIGO, PROFESOR, SECRETARIO, IMPUTADO}

AI_TURN == "AI_TURN"
USER_TURN == "USER_TURN"
OBJECTION_PHASE == "OBJECTION_PHASE"
LOADING == "LOADING"
TurnState == {AI_TURN, USER_TURN, OBJECTION_PHASE, LOADING}

(***************************************************************************)
(* Tokens of model text                                                    *)
(***************************************************************************)
WS == " "
TagClose == "]:"
PAUSA == "[PAUSA_PARA_OBJECION]"
FIN == "FIN DE LA SIMULACIÓN"
\* The marker as the system instruction tells the model to write it
\* (check_models.js:663): in bold, followed by a full stop.
InstructedFIN == "**FIN DE LA SIMULACIÓN**."

\* The role a tag's opening half names: the whitelist of the split regex.
TagSpeaker(tok) ==
    CASE tok = "[JUEZ" -> JUEZ
      [] tok = "[MINISTERIO PÚBLICO" -> MINISTERIO_PUBLICO
      [] tok = "[DEFENSA" -> DEFENSA
      [] tok = "[TESTIGO" -> TESTIGO
      [] tok = "[SECRETARIO" -> SECRETARIO
      [] OTHER -> NULL

\* A recognized tag starts at position i of text.
IsTagAt(text, i) ==
    /\ i >= 1
    /\ i < Len(text)
    /\ TagSpeaker(text[i]) # NULL
    /\ text[i + 1] = TagClose

\* String.prototype.trim on a token sequence.
TrimNothing(s) == s

RECURSIVE TrimLeft(_)
TrimLeft(s) ==
    IF s # <<>> /\ Head(s) = WS THEN TrimLeft(Tail(s)) ELSE s

RECURSIVE TrimRight(_)
TrimRight(s) ==
    IF s # <<>> /\ s[Len(s)] = WS THEN TrimRight(SubSeq(s, 1, Len(s) - 1)) ELSE s

Trim(s) == TrimRight(TrimLeft(s))

\* text.split(/(tag|tag|...)/g).filter(Boolean): the tags and the non-empty
\* runs of text between them, in order.  cur is the run being collected.
RECURSIVE SplitFrom(_, _, _, _)
SplitFrom(text, i, cur, parts) ==
    IF i > Len(text)
    THEN IF cur = <<>> THEN parts ELSE Append(parts, cur)
    ELSE IF IsTagAt(text, i)
         THEN SplitFrom(text, i + 2, <<>>,
                        Append(IF cur = <<>> THEN parts ELSE Append(parts, cur),
                               <<text[i], text[i + 1]>>))
         ELSE SplitFrom(text, i + 1, Append(cur, text[i]), parts)

SplitOnTags(text) == SplitFrom(text, 1, <<>>, <<>>)

\* tag === '[JUEZ]:' || ... : the trimmed part is exactly one recognized tag.
IsTagPart(p) == Len(p) = 2 /\ IsTagAt(p, 1)

\* text.match(/(tag|...)/): the speaker of the first tag of the text, or NULL.
RECURSIVE FirstTagFrom(_, _)
FirstTagFrom(text, i) ==
    IF i >= Len(text) THEN NULL
    ELSE IF IsTagAt(text, i) THEN TagSpeaker(text[i])
    ELSE FirstTagFrom(text, i + 1)

FirstTagSpeaker(text) == FirstTagFrom(text, 1)

(***************************************************************************)
(* utils/turnManager.ts.  tm is the role bound at construction.            *)
(***************************************************************************)
isUserSpeaker(tm, speaker) == speaker = tm

isAISpeaker(tm, speaker) == speaker # tm /\ speaker # PROFESOR

validateAIMessage(tm, speaker) == ~isUserSpeaker(tm, speaker)

\* Loading tested before the objection phase.
computeTurnStateLoadingFirst(tm, turn, loading, speaking, objection) ==
    IF loading THEN LOADING
    ELSE IF objection THEN OBJECTION_PHASE
    ELSE IF speaking THEN AI_TURN
    ELSE IF turn # NULL /\ turn # IMPUTADO /\ isUserSpeaker(tm, turn) THEN USER_TURN
    ELSE AI_TURN

\* The isSpeaking test left out.
computeTurnStateIgnoringAudio(tm, turn, loading, speaking, objection) ==
    IF objection THEN OBJECTION_PHASE
    ELSE IF loading THEN LOADING
    ELSE IF turn # NULL /\ turn # IMPUTADO /\ isUserSpeaker(tm, turn) THEN USER_TURN
    ELSE AI_TURN

computeTurnState(tm, turn, loading, speaking, objection) ==
    IF objection THEN OBJECTION_PHASE
    ELSE IF loading THEN LOADING
    ELSE IF speaking THEN AI_TURN
    ELSE IF turn = IMPUTADO THEN AI_TURN
    ELSE IF turn # NULL /\ ~isUserSpeaker(tm, turn) THEN AI_TURN
    ELSE IF turn # NULL /\ isUserSpeaker(tm, turn) THEN USER_TURN
    ELSE AI_TURN

canUserInteractTM(turnState) == turnState = USER_TURN

(***************************************************************************)
(* App.tsx: parseAIResponse.  The loop over parts, with its index.         *)
(***************************************************************************)
Message(speaker, text) == [speaker |-> speaker, text |-> text]

RECURSIVE ParseLoop(_, _, _, _, _)
ParseLoop(text, parts, i, messages, tm) ==
    IF i > Len(parts) THEN messages
    ELSE
      LET tag == Trim(parts[i])
          content == IF i + 1 <= Len(parts) THEN Trim(parts[i + 1]) ELSE <<>>
          speaker == IF IsTagPart(tag) THEN TagSpeaker(tag[1]) ELSE NULL
      IN  IF content = <<>> /\ IsTagPart(tag)
          THEN \* a tag with nothing after it yet: placeholder, i++, continue
               ParseLoop(text, parts, i + 2, Append(messages, Message(speaker, <<>>)), tm)
          ELSE IF content = <<>>
          THEN ParseLoop(text, parts, i + 1, messages, tm)
          ELSE IF speaker # NULL
          THEN IF tm # NULL /\ ~validateAIMessage(tm, speaker)
               THEN \* anti-impersonation guard: drop tag and content
                    ParseLoop(text, parts, i + 2, messages, tm)
               ELSE ParseLoop(text, parts, i + 2,
                              Append(messages, Message(speaker, content)), tm)
          ELSE IF messages # <<>>
          THEN \* messages[messages.length - 1].text += tag
               ParseLoop(text, parts, i + 1,
                         [messages EXCEPT ![Len(messages)].text = @ \o tag], tm)
          ELSE IF tag # <<>>
          THEN \* text before the first tag goes to the first tag's speaker
               LET firstSpeaker == FirstTagSpeaker(text)
               IN  IF firstSpeaker # NULL
                   THEN ParseLoop(text, parts, i + 1,
                                  Append(messages, Message(firstSpeaker, tag)), tm)
                   ELSE ParseLoop(text, parts, i + 1, messages, tm)
          ELSE ParseLoop(text, parts, i + 1, messages, tm)

parseAIResponseTM(text, tm) == ParseLoop(text, SplitOnTags(text), 1, <<>>, tm)

parseAIResponse(text) == parseAIResponseTM(text, turnManagerRef)

(***************************************************************************)
(* The state after construction (the useState / useRef initial values and  *)
(* the AudioService field initialisers).                                   *)
(***************************************************************************)
\* No call of handleStartSimulation / processAIStream has been made yet.
\*   kind: "start" | "continue" | "professor"; pc: the call's position;
\*   response: the text the model will have sent when its stream completes;
\*   accumulatedText, hasParsedContent, userMessageIndex: the call's locals;
\*   timer: the 45 s timeout of processAIStream ("off" | "armed" | "fired").
NoStream ==
    [kind |-> "none", pc |-> "idle", response |-> <<>>,
     accumulatedText |-> <<>>, hasParsedContent |-> FALSE,
     userMessageIndex |-> 0, timer |-> "off"]

\* No queue item (id 0, audioUrl 0 for an absent one), and no audio element
\* (currentAudio === null).  An element carries the id of the item whose
\* playAudio call created it; loadable tells whether its source was a live
\* object URL when it was created.
NoItem == [id |-> 0, text |-> <<>>, speaker |-> NULL, messageId |-> 0, audioUrl |-> 0]

NoAudio == [id |-> 0, state |-> "none", volume |-> 1, loadable |-> FALSE]

(***************************************************************************)
(* hooks/useSpeechRecognition.ts.  A recognizer is a SpeechRecognition     *)
(* instance: its state ("starting" | "started" | "stopping" | "ended" |    *)
(* "failed" when start() threw) and whether its onend, onerror and         *)
(* onresult handlers are still set.  speechRecognitionRef is the index of  *)
(* the current instance, 0 for null.  The text handed to onResult is left  *)
(* out: delivered lists the instances whose results reached onResult.      *)
(* History kept for the properties: whether stopListening was called since *)
(* the last startListening (stopped), the result events raised (emitted)   *)
(* and those raised while stopped (late).                                  *)
(***************************************************************************)
SpeechInit ==
    [isListening |-> FALSE, speechRecognitionRef |-> 0,
     shouldProcessResultRef |-> FALSE, recognizers |-> <<>>,
     delivered |-> <<>>, stopped |-> FALSE, emitted |-> 0, late |-> 0]

\* SpeechRecognition.stop() on instance r: an instance that is running
\* winds down; on any other the call has no effect (its error is caught).
StopRecognizer(recs, r) ==
    IF r = 0 THEN recs
    ELSE [recs EXCEPT ![r].state =
             IF @ \in {"starting", "started"} THEN "stopping" ELSE @]

\* Lines 14-26.
stopListening(s) ==
    [s EXCEPT !.isListening = FALSE,
              !.shouldProcessResultRef = FALSE,
              !.recognizers = StopRecognizer(@, s.speechRecognitionRef),
              !.stopped = TRUE]

\* Lines 32-107, the SpeechRecognition API being present; startThrows tells
\* whether recognition.start() throws.
startListening(s, startThrows) ==
    LET old == s.speechRecognitionRef
        recs == IF old = 0 THEN s.recognizers
                ELSE [StopRecognizer(s.recognizers, old) EXCEPT ![old].handlers = FALSE]
    IN  [s EXCEPT !.recognizers =
                     Append(recs, [state |-> IF startThrows THEN "failed" ELSE "starting",
                                   handlers |-> TRUE]),
                  !.speechRecognitionRef = Len(recs) + 1,
                  !.shouldProcessResultRef = ~startThrows,
                  !.isListening = ~startThrows,
                  !.stopped = FALSE]

\* Lines 56-61; onstart is not among the handlers startListening removes.
onstart(s, r) ==
    [s EXCEPT !.recognizers[r].state = "started",
              !.isListening = IF s.shouldProcessResultRef THEN TRUE ELSE @]

\* An onresult that does not look at shouldProcessResultRef.
onresultUnguarded(s, r) ==
    LET s1 == [s EXCEPT !.emitted = @ + 1,
                        !.late = IF s.stopped THEN @ + 1 ELSE @]
    IN  IF ~s.recognizers[r].handlers THEN s1
        ELSE [s1 EXCEPT !.delivered = Append(@, r)]

\* Lines 79-95: instance r raises a result event.
onresult(s, r) ==
    LET s1 == [s EXCEPT !.emitted = @ + 1,
                        !.late = IF s.stopped THEN @ + 1 ELSE @]
    IN  IF ~s.recognizers[r].handlers \/ ~s.shouldProcessResultRef THEN s1
        ELSE [s1 EXCEPT !.delivered = Append(@, r)]

\* Lines 63-71: instance r raises its end event.
onend(s, r) ==
    LET s1 == [s EXCEPT !.recognizers[r].state = "ended"]
    IN  IF s.recognizers[r].handlers /\ s.shouldProcessResultRef
        THEN [s1 EXCEPT !.isListening = FALSE, !.shouldProcessResultRef = FALSE]
        ELSE s1

\* Lines 73-77: instance r raises an error event; its end event follows.
onerror(s, r) ==
    LET s1 == [s EXCEPT !.recognizers[r].state = "stopping"]
    IN  IF s.recognizers[r].handlers
        THEN [s1 EXCEPT !.isListening = FALSE, !.shouldProcessResultRef = FALSE]
        ELSE s1

\* The AudioService fields; the number of functions in
\* queueCompletionCallbacks; the position of the processQueue loop (loop.pc:
\* "idle" | "sleep" | "synth" | "playing" | "resumed", loop.cur: currentItem);
\* the item a preloadNextAudio call is synthesizing (preload); the element
\* whose play() a pause has just rejected (playAborted, 0 for none); the
\* elements no field refers to any more but that still sound or will raise
\* an event (orphans); the object URLs created and not revoked (liveUrls);
\* the next queue id and URL; the value last delivered to the playing-state
\* listeners (lastNotified).
\* History kept for the properties: the ids playAudio was called for, in
\* order (playLog); the ids that were in the queue at a cancel (cancelled);
\* the processQueue calls that passed the guard and have not returned
\* (loops); the promises of waitForQueueCompletion not yet resolved
\* (unresolved).
AudioInit ==
    [queue |-> <<>>, isPlaying |-> FALSE, isPaused |-> FALSE, isMuted |-> FALSE,
     currentAudio |-> NoAudio, isProcessingQueue |-> FALSE,
     nextAudioPreloading |-> FALSE, replayBuffer |-> <<>>,
     totalQueuedDialogues |-> 0, completedDialogues |-> 0,
     failedDialogues |-> 0, queueCompletionCallbacks |-> 0,
     isQueueActive |-> FALSE, currentPlaybackResolver |-> FALSE,
     loop |-> [pc |-> "idle", cur |-> NoItem], preload |-> NoItem,
     playAborted |-> 0, orphans |-> {}, liveUrls |-> {},
     nextId |-> 1, nextUrl |-> 1, lastNotified |-> FALSE,
     playLog |-> <<>>, cancelled |-> {}, loops |-> 0, unresolved |-> 0]

AppConstructed ==
    /\ simulationState = "INITIAL"
    /\ simulationConfig = NULL
    /\ chatSessionRef = NULL
    /\ chatHistory = <<>>
    /\ isLoading = FALSE
    /\ currentTurn = NULL
    /\ isObjectionPhase = FALSE
    /\ showObjectionOptions = FALSE
    /\ isSpeaking = FALSE
    /\ isTtsEnabled = TRUE
    /\ speakClosureConfig = NULL
    /\ historyLengthBeforeLoadingRef = 0
    /\ prevIsLoadingRef = FALSE
    /\ stream = NoStream
    /\ audio = AudioInit
    /\ evaluation = NULL
    /\ evaluationCall = "none"
    /\ speech = SpeechInit

\* The roles SimulationSetup offers the human.
UserRoles == {DEFENSA, MINISTERIO_PUBLICO}

(***************************************************************************)
(* SpecParse: parseAIResponse applied to every text of at most MaxParseLen *)
(* tokens, under every role the human can be bound to.                     *)
(***************************************************************************)
MaxParseLen == 6

ParseAlphabet == {"[JUEZ", "[MINISTERIO PÚBLICO", "[DEFENSA", TagClose, "hola", WS}

TextsUpTo(alphabet, n) == UNION {[1..k -> alphabet] : k \in 0..n}

InitParse ==
    /\ AppConstructed
    /\ turnManagerRef \in UserRoles
    /\ requestsLeft = 0
    /\ fnArgs \in TextsUpTo(ParseAlphabet, MaxParseLen)
    /\ fnRet = <<>>
    /\ fnDone = FALSE

ApplyParse ==
    /\ ~fnDone
    /\ fnRet' = parseAIResponse(fnArgs)
    /\ fnDone' = TRUE
    /\ UNCHANGED <<appVars, audio, evalVars, hookVars, fnArgs>>

NextParse == ApplyParse

SpecParse == InitParse /\ [][NextParse]_vars

\* The positions at which a recognized tag starts, in increasing order.
TagPositions(text) == {i \in 1..Len(text) : IsTagAt(text, i)}

RECURSIVE Ascending(_)
Ascending(S) ==
    IF S = {} THEN <<>>
    ELSE LET m == CHOOSE x \in S : \A y \in S : x <= y
         IN  <<m>> \o Ascending(S \ {m})

\* The content owned by the tag at position p: up to the next tag or the end.
ContentAfter(text, p) ==
    LET later == {q \in TagPositions(text) : q > p}
        stop == IF later = {} THEN Len(text) + 1
                ELSE CHOOSE q \in later : \A r \in later : q <= r
    IN  SubSeq(text, p + 2, stop - 1)

\* The text is tag+content pairs only: it starts with a tag, every tag names
\* an AI role, and every tag is followed by at least one token of content.
WellFormedPairs(text, tm) ==
    /\ IsTagAt(text, 1)
    /\ \A p \in TagPositions(text) :
          /\ isAISpeaker(tm, TagSpeaker(text[p]))
          /\ ContentAfter(text, p) # <<>>

\* s without its leading and trailing white space, stated by positions.
Stripped(s) ==
    LET solid == {i \in 1..Len(s) : s[i] # WS}
    IN  IF solid = {} THEN <<>>
        ELSE SubSeq(s, CHOOSE i \in solid : \A j \in solid : i <= j,
                       CHOOSE i \in solid : \A j \in solid : i >= j)

ExpectedUtterances(text) ==
    LET pos == Ascending(TagPositions(text))
    IN  [k \in 1..Len(pos) |->
            [speaker |-> TagSpeaker(text[pos[k]]),
             text |-> Stripped(ContentAfter(text, pos[k]))]]

\* C1: parseAIResponse returns no utterance whose speaker is the human's
\* bound role, wherever the human-role tag stands in the text and whether or
\* not content follows it.
C1_NoImpersonation ==
    fnDone => \A k \in DOMAIN fnRet : fnRet[k].speaker # turnManagerRef

\* C10: for a text made only of well-formed pairs (an AI-role tag followed by
\* content), parseAIResponse returns exactly one utterance per pair, in the
\* order of the tags, each with the pair's speaker and its trimmed content.
C10_WellFormedPairsInOrder ==
    (fnDone /\ WellFormedPairs(fnArgs, turnManagerRef))
        => fnRet = ExpectedUtterances(fnArgs)

\* Two pairs of different AI speakers, the first with padded content.
C10_Witness ==
    /\ fnDone
    /\ WellFormedPairs(fnArgs, turnManagerRef)
    /\ Len(fnRet) = 2
    /\ fnRet[1].speaker # fnRet[2].speaker
    /\ fnRet[1].text = <<"hola">>

(***************************************************************************)
(* App.tsx:714-721: the turn state the render derives, and canUserInteract *)
(***************************************************************************)
computedTurnState ==
    IF turnManagerRef = NULL THEN AI_TURN
    ELSE computeTurnState(turnManagerRef, currentTurn, isLoading, isSpeaking,
                          isObjectionPhase)

canUserInteract == computedTurnState = USER_TURN

(***************************************************************************)
(* SpecTurn: one render under every combination of the four inputs and     *)
(* every bound role (NULL: no TurnManager constructed yet).                *)
(***************************************************************************)
InitTurn ==
    /\ simulationState = "STARTED"
    /\ turnManagerRef \in Speaker \cup {NULL}
    /\ simulationConfig = turnManagerRef
    /\ currentTurn \in Speaker \cup {NULL}
    /\ isLoading \in BOOLEAN
    /\ isSpeaking \in BOOLEAN
    /\ isObjectionPhase \in BOOLEAN
    /\ chatSessionRef = NULL
    /\ chatHistory = <<>>
    /\ showObjectionOptions = FALSE
    /\ isTtsEnabled = TRUE
    /\ speakClosureConfig = NULL
    /\ historyLengthBeforeLoadingRef = 0
    /\ prevIsLoadingRef = isLoading
    /\ stream = NoStream
    /\ requestsLeft = 0
    /\ audio = AudioInit
    /\ evaluation = NULL
    /\ evaluationCall = "none"
    /\ speech = SpeechInit
    /\ fnArgs = <<>>
    /\ fnRet = [state |-> AI_TURN, can |-> FALSE]
    /\ fnDone = FALSE

ApplyTurn ==
    /\ ~fnDone
    /\ fnRet' = [state |-> computedTurnState, can |-> canUserInteract]
    /\ fnDone' = TRUE
    /\ UNCHANGED <<appVars, audio, evalVars, hookVars, fnArgs>>

NextTurn == ApplyTurn

SpecTurn == InitTurn /\ [][NextTurn]_vars

\* C2: computeTurnState returns OBJECTION_PHASE whenever isObjectionPhase is
\* true; otherwise LOADING whenever isLoading is true; otherwise AI_TURN
\* whenever isSpeaking is true, whatever currentTurn is.
C2_PriorityOrder ==
    (fnDone /\ turnManagerRef # NULL) =>
        /\ isObjectionPhase => fnRet.state = OBJECTION_PHASE
        /\ (~isObjectionPhase /\ isLoading) => fnRet.state = LOADING
        /\ (~isObjectionPhase /\ ~isLoading /\ isSpeaking) => fnRet.state = AI_TURN

\* Audio plays while the nominal speaker is the human: still AI_TURN.
C2_Witness ==
    /\ fnDone
    /\ turnManagerRef # NULL
    /\ currentTurn = turnManagerRef
    /\ ~isObjectionPhase
    /\ ~isLoading
    /\ isSpeaking
    /\ fnRet.state = AI_TURN

\* C3 as stated: USER_TURN only when the three flags are false and
\* currentTurn is the human's role; a null currentTurn always yields AI_TURN;
\* canUserInteract only when the state is USER_TURN.
C3_AsStated ==
    fnDone =>
        /\ fnRet.state = USER_TURN =>
              (~isObjectionPhase /\ ~isLoading /\ ~isSpeaking
                  /\ currentTurn = turnManagerRef)
        /\ currentTurn = NULL => fnRet.state = AI_TURN
        /\ fnRet.can => fnRet.state = USER_TURN

\* C3 amended: USER_TURN only when the three flags are false and currentTurn
\* is the human's role; a null currentTurn never yields USER_TURN and yields
\* AI_TURN whenever neither the objection phase nor loading is on;
\* canUserInteract only when the state is USER_TURN.
C3_UserTurnOnlyWhenFree ==
    fnDone =>
        /\ fnRet.state = USER_TURN =>
              (~isObjectionPhase /\ ~isLoading /\ ~isSpeaking
                  /\ currentTurn # NULL /\ currentTurn = turnManagerRef)
        /\ currentTurn = NULL => fnRet.state # USER_TURN
        /\ (currentTurn = NULL /\ ~isObjectionPhase /\ ~isLoading)
              => fnRet.state = AI_TURN
        /\ fnRet.can => fnRet.state = USER_TURN

\* The human may act: the state is USER_TURN.
C3_Witness ==
    /\ fnDone
    /\ fnRet.state = USER_TURN
    /\ fnRet.can
    /\ currentTurn = turnManagerRef

(***************************************************************************)
(* App.tsx:219-253: parseTurnAndCleanText, and the markers the             *)
(* orchestrator looks for in the accumulated text.                         *)
(***************************************************************************)
\* The tokens /\[ETAPA:\s*([^\]]+)\]/i matches.
StageTokens == {"[ETAPA: Desahogo]"}

\* The capture group of turnRegex for a directive token; NULL for a token
\* the regex does not match (the match is case-sensitive).
TurnoLabel(tok) ==
    CASE tok = "[TURNO: Juez]" -> "Juez"
      [] tok = "[TURNO: Ministerio Público]" -> "Ministerio Público"
      [] tok = "[TURNO: Ministerio Publico]" -> "Ministerio Publico"
      [] tok = "[TURNO: Defensa]" -> "Defensa"
      [] tok = "[TURNO: Testigo]" -> "Testigo"
      [] tok = "[TURNO: Secretario]" -> "Secretario"
      [] OTHER -> NULL

toLowerCase(str) ==
    CASE str = "Juez" -> "juez"
      [] str = "Ministerio Público" -> "ministerio público"
      [] str = "Ministerio Publico" -> "ministerio publico"
      [] str = "Defensa" -> "defensa"
      [] str = "Testigo" -> "testigo"
      [] str = "Secretario" -> "secretario"
      [] str = "Profesor" -> "profesor"
      [] str = "Imputado" -> "imputado"
      [] OTHER -> str

\* str.normalize("NFD") with the combining marks removed.
normalize(str) ==
    CASE str = "ministerio público" -> "ministerio publico"
      [] str = "Ministerio Público" -> "Ministerio Publico"
      [] OTHER -> str

\* The position of the first token of text that is in S, or 0.
FirstIndexIn(text, S) ==
    LET hits == {i \in 1..Len(text) : text[i] \in S}
    IN  IF hits = {} THEN 0 ELSE CHOOSE i \in hits : \A j \in hits : i <= j

\* String.prototype.replace(pattern, ''): only the first occurrence goes.
RemoveFirstOf(text, S) ==
    LET i == FirstIndexIn(text, S)
    IN  IF i = 0 THEN text
        ELSE SubSeq(text, 1, i - 1) \o SubSeq(text, i + 1, Len(text))

parseTurnAndCleanText(rawText) ==
    LET stageAt == FirstIndexIn(rawText, StageTokens)
        text == RemoveFirstOf(rawText, StageTokens)
        body == TrimRight(text)
        matched == body # <<>> /\ TurnoLabel(body[Len(body)]) # NULL
        roleStr == toLowerCase(TurnoLabel(body[Len(body)]))
    IN  [cleanText |-> IF matched THEN Trim(SubSeq(body, 1, Len(body) - 1))
                       ELSE text,
         nextTurn |->
            IF ~matched THEN NULL
            ELSE IF normalize(roleStr) = normalize(toLowerCase(JUEZ)) THEN JUEZ
            ELSE IF normalize(roleStr) = normalize(toLowerCase(MINISTERIO_PUBLICO))
                 THEN MINISTERIO_PUBLICO
            ELSE IF normalize(roleStr) = normalize(toLowerCase(DEFENSA)) THEN DEFENSA
            ELSE IF normalize(roleStr) = normalize(toLowerCase(TESTIGO)) THEN TESTIGO
            ELSE IF normalize(roleStr) = normalize(toLowerCase(SECRETARIO))
                 THEN SECRETARIO
            ELSE NULL,
         detectedStage |-> IF stageAt = 0 THEN NULL ELSE rawText[stageAt]]

\* A test that lets a trailing turn directive win over the marker.
IncludesPausaWithoutDirective(text) ==
    /\ \E i \in 1..Len(text) : text[i] = PAUSA
    /\ parseTurnAndCleanText(text).nextTurn = NULL

\* accumulatedText.includes('[PAUSA_PARA_OBJECION]')
IncludesPausa(text) == \E i \in 1..Len(text) : text[i] = PAUSA

\* The tokens whose upper-cased text ends with 'FIN DE LA SIMULACIÓN'.
TerminationTokens == {FIN, "Fin de la simulación"}

\* accumulatedText.trim().toUpperCase().endsWith('FIN DE LA SIMULACIÓN')
EndsWithTermination(text) ==
    LET t == Trim(text)
    IN  t # <<>> /\ t[Len(t)] \in TerminationTokens

\* What a chunk handler shows: the parse of the text so far, cleaned.
ParsedSoFar(accumulatedText) ==
    parseAIResponse(RemoveFirstOf(parseTurnAndCleanText(accumulatedText).cleanText,
                                  {PAUSA}))

\* Array.prototype.slice(0, n)
Slice(s, n) == SubSeq(s, 1, IF n < Len(s) THEN n ELSE Len(s))

\* The texts the orchestrator and the user put into the history.
StartErrorText == <<"Error al iniciar la simulación. Por favor, recargue la página.">>
StreamErrorText == <<"Ocurrió un error al procesar la respuesta.">>
TimeoutErrorText == <<"La IA está tomando más tiempo de lo esperado. Por favor, intenta de nuevo o espera un momento.">>
SystemErrorText == <<"[Error del sistema: La IA no generó una respuesta válida. Por favor, reformule su intervención.]">>
ProfessorErrorText == <<"Hubo un error al procesar tu duda. Intenta de nuevo.">>
ProfessorAnswerText == <<"respuesta">>
UserText == <<"protesto">>
MetaQuestionText == <<"[duda]">>
ObjectionText == <<"objeción: sugestiva">>

(***************************************************************************)
(* services/audioService.ts.  Every operator takes the service's state a   *)
(* and returns the state after the call has run to its next suspension.    *)
(***************************************************************************)
maxReplaySize == 5

\* The tokens that are one whole bracketed segment.
BracketedTokens ==
    {PAUSA, "[TURNO: Juez]", "[TURNO: Ministerio Público]",
     "[TURNO: Ministerio Publico]", "[TURNO: Defensa]", "[TURNO: Testigo]",
     "[TURNO: Secretario]", "[duda]"} \cup StageTokens
    \cup {SystemErrorText[1]}

\* text.replace(/\[.*?\]/g, ''): from each "[" up to the first "]" after it.
\* An opening tag half is closed by the next "]:" (which leaves its ":") or
\* by the end of the next bracketed token.
RECURSIVE StripBrackets(_, _, _)
StripBrackets(text, i, out) ==
    IF i > Len(text) THEN out
    ELSE IF text[i] \in BracketedTokens THEN StripBrackets(text, i + 1, out)
    ELSE IF TagSpeaker(text[i]) # NULL
    THEN LET closers == {j \in (i + 1)..Len(text) :
                            text[j] = TagClose \/ text[j] \in BracketedTokens}
         IN  IF closers = {}
             THEN StripBrackets(text, i + 1, Append(out, text[i]))
             ELSE LET j == CHOOSE k \in closers : \A m \in closers : k <= m
                  IN  StripBrackets(text, j + 1,
                         IF text[j] = TagClose THEN Append(out, ":") ELSE out)
    ELSE StripBrackets(text, i + 1, Append(out, text[i]))

cleanTextForSpeech(text) == Trim(StripBrackets(text, 1, <<>>))

\* A buffer that keeps its oldest items and drops the new one when it is full.
addToReplayBufferKeepingOldest(a, item) ==
    LET pushed == Append(a.replayBuffer, item)
    IN  [a EXCEPT !.replayBuffer =
            IF Len(pushed) > maxReplaySize
            THEN SubSeq(pushed, 1, maxReplaySize) ELSE pushed]

addToReplayBuffer(a, item) ==
    LET pushed == Append(a.replayBuffer, item)
    IN  [a EXCEPT !.replayBuffer =
            IF Len(pushed) > maxReplaySize THEN Tail(pushed) ELSE pushed]

clearReplayBuffer(a) == [a EXCEPT !.replayBuffer = <<>>]

\* The promises whose resolve functions are dropped here stay unresolved.
resetQueue(a) ==
    [a EXCEPT !.totalQueuedDialogues = 0, !.completedDialogues = 0,
              !.failedDialogues = 0, !.queueCompletionCallbacks = 0,
              !.replayBuffer = <<>>, !.isQueueActive = FALSE]

\* waitForQueueCompletion(): the promise is resolved at once, or its resolve
\* function is registered.
waitForQueueCompletion(a) ==
    IF ~a.isQueueActive /\ a.queue = <<>> THEN a
    ELSE [a EXCEPT !.queueCompletionCallbacks = @ + 1, !.unresolved = @ + 1]

\* callbacks.forEach(callback => callback()) on a copy, the list emptied.
FireCompletionCallbacks(a) ==
    [a EXCEPT !.unresolved = @ - a.queueCompletionCallbacks,
              !.queueCompletionCallbacks = 0]

\* Array.prototype.shift()
Shift(q) == IF q = <<>> THEN q ELSE Tail(q)

\* item.audioUrl = url, for the queue item object with this id.
SetUrl(q, id, url) ==
    [k \in 1..Len(q) |-> IF q[k].id = id THEN [q[k] EXCEPT !.audioUrl = url]
                         ELSE q[k]]

\* The queue, the loop's currentItem and the replay buffer refer to the same
\* item object: an assignment to its audioUrl is seen through all of them.
SetItemUrl(a, id, url) ==
    [a EXCEPT !.queue = SetUrl(@, id, url),
              !.replayBuffer = SetUrl(@, id, url),
              !.loop.cur = IF @.id = id THEN [@ EXCEPT !.audioUrl = url] ELSE @]

\* The audio elements that sound or can still raise an event.
Elements(a) ==
    (IF a.currentAudio = NoAudio THEN {} ELSE {a.currentAudio}) \cup a.orphans

\* The element currentAudio refers to, once that reference is overwritten:
\* it goes on sounding (and will raise its events) unless it is paused.
Unreferenced(a, id) ==
    IF a.currentAudio.id # id /\ a.currentAudio.state \in {"starting", "playing"}
    THEN {a.currentAudio} ELSE {}

(***************************************************************************)
(* generateSpeechWithRetry: outcomes[k] is what the k-th request to the    *)
(* synthesis API does ("ok", "error": a non-2xx status, "empty": no        *)
(* audioContent, "throw": fetch rejects).  The result tells whether an     *)
(* object URL was produced and how many requests were made.  An API key is *)
(* configured.                                                             *)
(***************************************************************************)
maxRetries == 2

FetchOutcome == {"ok", "error", "empty", "throw"}

\* The keys of voiceMap, which are also the keys of fallbackVoices.
VoicedSpeakers == {JUEZ, MINISTERIO_PUBLICO, DEFENSA, TESTIGO, PROFESOR, SECRETARIO}

\* The length of every list of fallbackVoices.
FallbackCount == 3

\* voiceMap: the name of the voice configured for each speaker.
voiceMap ==
    [s \in VoicedSpeakers |->
        CASE s = JUEZ -> "es-ES-Neural2-B"
          [] s = MINISTERIO_PUBLICO -> "es-US-Neural2-B"
          [] s = DEFENSA -> "es-US-Neural2-A"
          [] s = TESTIGO -> "es-US-News-F"
          [] s = PROFESOR -> "es-ES-Neural2-F"
          [] OTHER -> "es-ES-Neural2-A"]

\* fallbackVoices: the voices to retry with, in order of preference.
fallbackVoices ==
    [s \in VoicedSpeakers |->
        CASE s = JUEZ -> <<"es-ES-Neural2-F", "es-US-Neural2-B", "es-US-Polyglot-1">>
          [] s = MINISTERIO_PUBLICO
                -> <<"es-US-Polyglot-1", "es-ES-Neural2-B", "es-ES-Neural2-F">>
          [] s = DEFENSA -> <<"es-ES-Neural2-A", "es-ES-Neural2-E", "es-US-News-F">>
          [] s = TESTIGO -> <<"es-US-Neural2-A", "es-ES-Neural2-E", "es-ES-Neural2-A">>
          [] s = PROFESOR -> <<"es-ES-Neural2-A", "es-US-Neural2-A", "es-ES-Neural2-E">>
          [] OTHER -> <<"es-ES-Neural2-A", "es-US-Neural2-A", "es-ES-Neural2-E">>]

\* getFallbackVoice(speaker, attemptNumber) !== null
getFallbackVoice(speaker, attemptNumber) ==
    speaker \in VoicedSpeakers /\ attemptNumber < FallbackCount

\* The name of the configuration getFallbackVoice returns (attemptNumber
\* counts from 0).
fallbackVoiceId(speaker, attemptNumber) == fallbackVoices[speaker][attemptNumber + 1]

\* The loop of generateSpeechWithRetry from attempt on, voiceConfig naming
\* the voice it holds; voices collects the voice of every request sent.
RECURSIVE SpeechAttempt(_, _, _, _)
SpeechAttempt(speaker, outcomes, attempt, voiceConfig) ==
    IF attempt > maxRetries THEN [ok |-> FALSE, attempts |-> attempt, voices |-> <<>>]
    ELSE LET fallback == attempt < maxRetries /\ getFallbackVoice(speaker, attempt)
             next == SpeechAttempt(speaker, outcomes, attempt + 1,
                                   IF fallback THEN fallbackVoiceId(speaker, attempt)
                                   ELSE voiceConfig)
             retried == [next EXCEPT !.voices = <<voiceConfig>> \o @]
             giveUp == [ok |-> FALSE, attempts |-> attempt + 1,
                        voices |-> <<voiceConfig>>]
         IN  CASE outcomes[attempt + 1] = "ok" ->
                    [ok |-> TRUE, attempts |-> attempt + 1, voices |-> <<voiceConfig>>]
               [] outcomes[attempt + 1] = "empty" ->
                    IF fallback THEN retried ELSE giveUp
               [] OTHER ->
                    IF fallback THEN retried
                    ELSE IF attempt = maxRetries THEN giveUp ELSE retried

generateSpeechWithRetry(speaker, outcomes) ==
    IF speaker \notin VoicedSpeakers THEN [ok |-> FALSE, attempts |-> 0, voices |-> <<>>]
    ELSE SpeechAttempt(speaker, outcomes, 0, voiceMap[speaker])

\* URL.createObjectURL: a URL no earlier call has returned.
createObjectURL(a) ==
    [a EXCEPT !.liveUrls = @ \cup {a.nextUrl}, !.nextUrl = @ + 1]

(***************************************************************************)
(* processQueue, cut at its awaits                                         *)
(***************************************************************************)
\* playAudio up to the promise it returns: a new element whose play() has
\* been requested, and setPlayingState(true).
playAudio(a) ==
    [a EXCEPT !.currentPlaybackResolver = TRUE,
              !.orphans = @ \cup Unreferenced(a, 0),
              !.currentAudio = [id |-> a.loop.cur.id, state |-> "starting",
                                volume |-> IF a.isMuted THEN 0 ELSE 1,
                                loadable |-> a.loop.cur.audioUrl \in a.liveUrls],
              !.isPlaying = TRUE,
              !.lastNotified = TRUE,
              !.loop.pc = "playing",
              !.playLog = Append(@, a.loop.cur.id)]

\* preloadNextAudio up to its await.
preloadNextAudio(a) ==
    IF Len(a.queue) < 2 THEN a
    ELSE IF a.queue[2].audioUrl = 0
    THEN [a EXCEPT !.nextAudioPreloading = TRUE, !.preload = a.queue[2]]
    ELSE [a EXCEPT !.nextAudioPreloading = FALSE]

\* processQueue from "Preload next item" to the await of playAudio.
LoopPlay(a) ==
    LET a1 == IF Len(a.queue) > 1 /\ ~a.nextAudioPreloading
              THEN preloadNextAudio(a) ELSE a
    IN  playAudio(addToReplayBuffer(a1, a1.loop.cur))

\* processQueue after its while loop.
LoopExit(a) ==
    LET a1 == [a EXCEPT !.isProcessingQueue = FALSE, !.isPlaying = FALSE,
                        !.isQueueActive = FALSE,
                        !.loop = [pc |-> "idle", cur |-> NoItem],
                        !.loops = @ - 1]
    IN  IF a1.completedDialogues + a1.failedDialogues = a1.totalQueuedDialogues
        THEN FireCompletionCallbacks(a1) ELSE a1

\* processQueue from "while (this.isPaused)" on, currentItem being loop.cur.
LoopPauseCheck(a) ==
    IF a.isPaused THEN [a EXCEPT !.loop.pc = "sleep"]
    ELSE IF a.loop.cur.audioUrl = 0 THEN [a EXCEPT !.loop.pc = "synth"]
    ELSE LoopPlay(a)

\* processQueue from the test of its while loop.
LoopTop(a) ==
    IF a.queue = <<>> THEN LoopExit(a)
    ELSE LoopPauseCheck([a EXCEPT !.loop = [pc |-> "running", cur |-> a.queue[1]]])

\* A loop that does not count the items it fails to synthesize.
LoopAfterSynthUncounted(a, ok) ==
    IF ok THEN LoopPlay(SetItemUrl(createObjectURL(a), a.loop.cur.id, a.nextUrl))
    ELSE LoopTop([a EXCEPT !.queue = Shift(@)])

\* processQueue after generateSpeechWithRetry has returned (a URL when ok).
LoopAfterSynth(a, ok) ==
    IF ok THEN LoopPlay(SetItemUrl(createObjectURL(a), a.loop.cur.id, a.nextUrl))
    ELSE LoopTop([SetItemUrl(a, a.loop.cur.id, 0) EXCEPT
                    !.failedDialogues = @ + 1, !.queue = Shift(@)])

\* processQueue after playAudio's promise has resolved.
LoopAfterPlay(a) ==
    LoopTop([a EXCEPT !.completedDialogues = @ + 1, !.queue = Shift(@),
                      !.liveUrls = @ \ {a.loop.cur.audioUrl}])

processQueue(a) ==
    IF a.isProcessingQueue THEN a
    ELSE LoopTop([a EXCEPT !.isProcessingQueue = TRUE, !.loops = @ + 1])

\* preloadNextAudio after generateSpeechWithRetry has returned.
PreloadAfterSynth(a, ok) ==
    LET a1 == IF ok THEN SetItemUrl(createObjectURL(a), a.preload.id, a.nextUrl)
              ELSE SetItemUrl(a, a.preload.id, 0)
    IN  [a1 EXCEPT !.nextAudioPreloading = FALSE, !.preload = NoItem]

\* A speak that puts the new item at the head of the queue.
speakPrepending(a, text, speaker, messageId) ==
    IF cleanTextForSpeech(text) = <<>> THEN a
    ELSE LET a1 == [a EXCEPT
                      !.queue = <<[id |-> a.nextId,
                                   text |-> cleanTextForSpeech(text),
                                   speaker |-> speaker,
                                   messageId |-> messageId,
                                   audioUrl |-> 0]>> \o @,
                      !.nextId = @ + 1,
                      !.totalQueuedDialogues = @ + 1,
                      !.isQueueActive = TRUE]
         IN  IF ~a1.isProcessingQueue THEN processQueue(a1) ELSE a1

speak(a, text, speaker, messageId) ==
    IF cleanTextForSpeech(text) = <<>> THEN a
    ELSE LET a1 == [a EXCEPT
                      !.queue = Append(@, [id |-> a.nextId,
                                           text |-> cleanTextForSpeech(text),
                                           speaker |-> speaker,
                                           messageId |-> messageId,
                                           audioUrl |-> 0]),
                      !.nextId = @ + 1,
                      !.totalQueuedDialogues = @ + 1,
                      !.isQueueActive = TRUE]
         IN  IF ~a1.isProcessingQueue THEN processQueue(a1) ELSE a1

\* The cleanup closure of the playAudio call that created element id: it
\* writes the service's fields whichever element they refer to by now, and
\* resolves the promise of its own call.
cleanup(a, id) ==
    LET a1 == [a EXCEPT !.isPlaying = FALSE, !.lastNotified = FALSE,
                        !.orphans = {e \in @ : e.id # id} \cup Unreferenced(a, id),
                        !.currentAudio = NoAudio,
                        !.currentPlaybackResolver = FALSE]
    IN  IF a1.loop.pc = "playing" /\ a1.loop.cur.id = id
        THEN LoopAfterPlay(a1) ELSE a1

\* HTMLMediaElement.pause() on currentAudio: a play() still pending is
\* rejected.
PauseElement(a) ==
    IF a.currentAudio = NoAudio \/ a.currentAudio.state = "paused" THEN a
    ELSE [a EXCEPT !.playAborted = IF a.currentAudio.state = "starting"
                                   THEN a.currentAudio.id ELSE 0,
                   !.currentAudio.state = "paused"]

\* Calling currentPlaybackResolver resumes the loop that awaits playAudio.
CallResolver(a) ==
    [a EXCEPT !.loop.pc = IF a.currentPlaybackResolver /\ @ = "playing"
                          THEN "resumed" ELSE @,
              !.currentPlaybackResolver = FALSE]

\* cancel(): the listeners are not told.
cancel(a) ==
    LET a1 == CallResolver([PauseElement(a) EXCEPT !.currentAudio = NoAudio])
    IN  FireCompletionCallbacks(
          [a1 EXCEPT !.liveUrls = @ \ {a.queue[k].audioUrl : k \in 1..Len(a.queue)},
                     !.cancelled = @ \cup {a.queue[k].id : k \in 1..Len(a.queue)},
                     !.queue = <<>>,
                     !.isPlaying = FALSE,
                     !.isPaused = FALSE,
                     !.isQueueActive = FALSE])

pause(a) == [PauseElement(a) EXCEPT !.isPaused = TRUE]

\* play() on an element whose source cannot be loaded is rejected.
resume(a) ==
    [a EXCEPT !.isPaused = FALSE,
              !.currentAudio.state = IF @ = "paused" /\ a.currentAudio.loadable
                                     THEN "playing" ELSE @]

\* A setMuted that stops the narration.
setMutedCancelling(a, muted) ==
    [cancel(a) EXCEPT !.isMuted = muted]

setMuted(a, muted) ==
    [a EXCEPT !.isMuted = muted,
              !.currentAudio = IF @ = NoAudio THEN @
                               ELSE [@ EXCEPT !.volume = IF muted THEN 0 ELSE 1]]

\* skipCurrent(): currentAudio keeps referring to the element it paused.
skipCurrent(a) ==
    IF a.currentAudio = NoAudio THEN a
    ELSE LET a1 == CallResolver(PauseElement(a))
         IN  IF Len(a1.queue) <= 1
             THEN [a1 EXCEPT !.isPlaying = FALSE, !.lastNotified = FALSE]
             ELSE a1

\* this.replayBuffer.forEach(...): a copy of each item under a new id.
RECURSIVE Requeue(_, _)
Requeue(a, k) ==
    IF k > Len(a.replayBuffer) THEN a
    ELSE Requeue([a EXCEPT !.queue = Append(@, [a.replayBuffer[k] EXCEPT
                                                   !.id = a.nextId]),
                           !.nextId = @ + 1,
                           !.totalQueuedDialogues = @ + 1],
                 k + 1)

replayLastTurn(a) ==
    IF a.replayBuffer = <<>> THEN a
    ELSE processQueue([Requeue(cancel(a), 1) EXCEPT !.isQueueActive = TRUE])

\* What runs once the calling handler has returned: the loop continuation a
\* resolver call has queued, then the catch of a rejected play().
Settle(a) ==
    LET a1 == IF a.loop.pc = "resumed" THEN LoopAfterPlay(a) ELSE a
    IN  IF a1.playAborted # 0
        THEN cleanup([a1 EXCEPT !.playAborted = 0], a1.playAborted) ELSE a1

(***************************************************************************)
(* App.tsx: what follows every macrotask.  The render that a handler's     *)
(* state updates cause runs the speak effect (143-158) once; the listener  *)
(* of onPlayingStateChange (175-186) keeps isSpeaking at the value the     *)
(* service last announced.                                                 *)
(***************************************************************************)
\* A message's id is modelled by its position in the history: base is the
\* number of messages before the ones handed over.
RECURSIVE SpeakEach(_, _, _, _, _)
SpeakEach(a, messages, i, config, base) ==
    IF i > Len(messages) THEN a
    ELSE SpeakEach(IF messages[i].speaker # PROFESOR /\ messages[i].speaker # config
                   THEN speak(a, messages[i].text, messages[i].speaker, base + i)
                   ELSE a,
                   messages, i + 1, config, base)

speakMessagesSequentially(a, messages, ttsEnabled, config, base) ==
    IF ~ttsEnabled \/ messages = <<>> THEN a
    ELSE SpeakEach(a, messages, 1, config, base)

\* a is the service's state once the handler's own calls have run.
Render(a) ==
    /\ prevIsLoadingRef' = isLoading'
    /\ LET shouldSpeak == /\ simulationState' \in {"STARTED", "ENDED"}
                          /\ ~isLoading'
                          /\ Len(chatHistory') > 0
           newAiMessages == SubSeq(chatHistory', historyLengthBeforeLoadingRef' + 1,
                                   Len(chatHistory'))
           a1 == IF prevIsLoadingRef /\ shouldSpeak /\ newAiMessages # <<>>
                 THEN speakMessagesSequentially(a, newAiMessages, isTtsEnabled',
                                                speakClosureConfig',
                                                historyLengthBeforeLoadingRef')
                 ELSE a
       IN  /\ audio' = a1
           /\ isSpeaking' = a1.lastNotified

\* simulationConfig?.userRole || Speaker.DEFENSA
UserRoleOrDefault == IF simulationConfig = NULL THEN DEFENSA ELSE simulationConfig

\* A call of handleStartSimulation, processAIStream or the professor flow
\* has not returned yet.
InFlight == stream.pc \notin {"idle", "completed", "failed"}

(***************************************************************************)
(* App.tsx:402-506: processAIStream                                        *)
(***************************************************************************)
\* A processAIStream that takes the last utterance of the history it sees
\* as the one before the response, also when the human has just added one.
processAIStreamBeginBeforeUser(isUserMessage) ==
    /\ stream' = [NoStream EXCEPT
                    !.kind = "continue",
                    !.pc = "awaitStream",
                    !.userMessageIndex = Len(chatHistory) - 1,
                    !.timer = "armed"]
    /\ historyLengthBeforeLoadingRef' = IF isUserMessage THEN Len(chatHistory) + 1
                                        ELSE Len(chatHistory)
    /\ isLoading' = TRUE
    /\ currentTurn' = NULL
    /\ requestsLeft' = requestsLeft - 1

\* Lines 403-416, up to the await of the race.
processAIStreamBegin(isUserMessage) ==
    /\ stream' = [NoStream EXCEPT
                    !.kind = "continue",
                    !.pc = "awaitStream",
                    !.userMessageIndex = IF isUserMessage THEN Len(chatHistory)
                                         ELSE Len(chatHistory) - 1,
                    !.timer = "armed"]
    /\ historyLengthBeforeLoadingRef' = IF isUserMessage THEN Len(chatHistory) + 1
                                        ELSE Len(chatHistory)
    /\ isLoading' = TRUE
    /\ currentTurn' = NULL
    /\ requestsLeft' = requestsLeft - 1

\* The catch block without setCurrentTurn.
processAIStreamCatchNoUnlock(errorMsg) ==
    /\ chatHistory' = Append(chatHistory, Message(JUEZ, errorMsg))
    /\ currentTurn' = currentTurn
    /\ isLoading' = FALSE
    /\ stream' = [stream EXCEPT !.pc = "failed", !.timer = "off"]

\* Lines 490-505: catch and finally.
processAIStreamCatch(errorMsg) ==
    /\ chatHistory' = Append(chatHistory, Message(JUEZ, errorMsg))
    /\ currentTurn' = UserRoleOrDefault
    /\ isLoading' = FALSE
    /\ stream' = [stream EXCEPT !.pc = "failed", !.timer = "off"]

\* continueChat (check_models.js:224-258) settles as soon as the session's
\* sessionIdPromise has: it throws when there is no session id, and
\* otherwise returns the generator, whose first next() sends the request.
\* texts: the responses the model may give.
ObtainStream(texts) ==
    /\ stream.kind = "continue"
    /\ stream.pc = "awaitStream"
    /\ chatSessionRef \in {"ok", "none"}
    /\ IF chatSessionRef = "none"
       THEN /\ processAIStreamCatch(StreamErrorText)
       ELSE /\ \E response \in texts :
                 stream' = [stream EXCEPT !.pc = "streaming", !.response = response]
            /\ UNCHANGED <<chatHistory, currentTurn, isLoading>>
    /\ UNCHANGED <<simulationState, simulationConfig, turnManagerRef, chatSessionRef,
                   isObjectionPhase, showObjectionOptions, isTtsEnabled,
                   speakClosureConfig, historyLengthBeforeLoadingRef, requestsLeft,
                   fnVars, evalVars, hookVars>>
    /\ Render(audio)

\* The setTimeout of line 413 elapses.  It rejects the race, which only a
\* call still waiting for the stream itself notices; it cannot run before
\* the microtasks that settle continueChat.
TimeoutFires ==
    /\ stream.kind = "continue"
    /\ stream.timer = "armed"
    /\ stream.pc \in {"awaitStream", "streaming"}
    /\ ~(stream.pc = "awaitStream" /\ chatSessionRef \in {"ok", "none"})
    /\ IF stream.pc = "awaitStream"
       THEN processAIStreamCatch(TimeoutErrorText)
       ELSE /\ stream' = [stream EXCEPT !.timer = "fired"]
            /\ UNCHANGED <<chatHistory, currentTurn, isLoading>>
    /\ UNCHANGED <<simulationState, simulationConfig, turnManagerRef, chatSessionRef,
                   isObjectionPhase, showObjectionOptions, isTtsEnabled,
                   speakClosureConfig, historyLengthBeforeLoadingRef, requestsLeft,
                   fnVars, evalVars, hookVars>>
    /\ Render(audio)

\* Lines 420-441: one iteration of the for-await loop.  The chunk is any
\* non-empty further piece of the response.
StreamChunk ==
    /\ stream.kind = "continue"
    /\ stream.pc = "streaming"
    /\ \E k \in (Len(stream.accumulatedText) + 1)..Len(stream.response) :
          LET accumulatedText == SubSeq(stream.response, 1, k)
              newMessages == ParsedSoFar(accumulatedText)
          IN  /\ stream' = [stream EXCEPT
                              !.accumulatedText = accumulatedText,
                              !.hasParsedContent = @ \/ newMessages # <<>>]
              /\ chatHistory' = Slice(chatHistory, stream.userMessageIndex + 1)
                                   \o newMessages
    /\ UNCHANGED <<simulationState, simulationConfig, turnManagerRef, chatSessionRef,
                   isLoading, currentTurn, isObjectionPhase, showObjectionOptions,
                   isTtsEnabled, speakClosureConfig, historyLengthBeforeLoadingRef,
                   requestsLeft, fnVars, evalVars, hookVars>>
    /\ Render(audio)

\* Lines 476-487: the turn the orchestrator resolves to.
ResolvedTurn(nextTurn) ==
    IF nextTurn = NULL THEN UserRoleOrDefault
    ELSE IF turnManagerRef # NULL /\ isUserSpeaker(turnManagerRef, nextTurn)
    THEN nextTurn
    ELSE IF turnManagerRef # NULL /\ isAISpeaker(turnManagerRef, nextTurn)
    THEN nextTurn
    ELSE UserRoleOrDefault

\* The fallback carrying the text without its surrounding white space.
fallbackMessageTrimmed(accumulatedText) == Message(JUEZ, Trim(accumulatedText))

\* Line 446: the fallback utterance.
fallbackMessage(accumulatedText) == Message(JUEZ, accumulatedText)

\* Lines 443-488 and the finally: the stream has ended.
StreamDone ==
    /\ stream.kind = "continue"
    /\ stream.pc = "streaming"
    /\ stream.accumulatedText = stream.response
    /\ LET accumulatedText == stream.accumulatedText
           useFallback == ~stream.hasParsedContent /\ Trim(accumulatedText) # <<>>
           afterFallback ==
               IF useFallback
               THEN Append(Slice(chatHistory, stream.userMessageIndex + 1),
                           fallbackMessage(accumulatedText))
               ELSE chatHistory
           hasParsedContent == stream.hasParsedContent \/ useFallback
       IN  /\ chatHistory' = IF ~hasParsedContent
                             THEN Append(afterFallback, Message(JUEZ, SystemErrorText))
                             ELSE afterFallback
           /\ IF IncludesPausa(accumulatedText)
              THEN /\ isObjectionPhase' = TRUE
                   /\ showObjectionOptions' = FALSE
                   /\ currentTurn' = NULL
                   /\ UNCHANGED simulationState
              ELSE IF EndsWithTermination(accumulatedText)
              THEN /\ simulationState' = "ENDED"
                   /\ UNCHANGED <<isObjectionPhase, showObjectionOptions, currentTurn>>
              ELSE /\ currentTurn' =
                        ResolvedTurn(parseTurnAndCleanText(accumulatedText).nextTurn)
                   /\ UNCHANGED <<isObjectionPhase, showObjectionOptions,
                                  simulationState>>
    /\ isLoading' = FALSE
    /\ stream' = [stream EXCEPT !.pc = "completed", !.timer = "off"]
    /\ UNCHANGED <<simulationConfig, turnManagerRef, chatSessionRef, isTtsEnabled,
                   speakClosureConfig, historyLengthBeforeLoadingRef, requestsLeft,
                   fnVars, evalVars, hookVars>>
    /\ Render(audio)

\* The request or a read of the response body fails: the for-await throws.
StreamThrows ==
    /\ stream.kind = "continue"
    /\ stream.pc = "streaming"
    /\ processAIStreamCatch(StreamErrorText)
    /\ UNCHANGED <<simulationState, simulationConfig, turnManagerRef, chatSessionRef,
                   isObjectionPhase, showObjectionOptions, isTtsEnabled,
                   speakClosureConfig, historyLengthBeforeLoadingRef, requestsLeft,
                   fnVars, evalVars, hookVars>>
    /\ Render(audio)

(***************************************************************************)
(* App.tsx: the handlers that start an exchange                            *)
(***************************************************************************)
\* Lines 514-574.  The form submits only while canUserInteract.
submitMessage(isMetaQuestion) ==
    /\ simulationState = "STARTED"
    /\ canUserInteract
    /\ ~InFlight
    /\ requestsLeft > 0
    /\ IF isMetaQuestion
       THEN /\ chatHistory' = Append(chatHistory,
                                     Message(UserRoleOrDefault, MetaQuestionText))
            /\ historyLengthBeforeLoadingRef' = Len(chatHistory) + 1
            /\ isLoading' = TRUE
            /\ stream' = [NoStream EXCEPT !.kind = "professor", !.pc = "askProfessor"]
            /\ requestsLeft' = requestsLeft - 1
            /\ UNCHANGED currentTurn
       ELSE IF chatSessionRef = NULL
       THEN UNCHANGED <<chatHistory, historyLengthBeforeLoadingRef, isLoading,
                        stream, requestsLeft, currentTurn>>
       ELSE /\ chatHistory' = Append(chatHistory, Message(UserRoleOrDefault, UserText))
            /\ processAIStreamBegin(TRUE)
    /\ UNCHANGED <<simulationState, simulationConfig, turnManagerRef, chatSessionRef,
                   isObjectionPhase, showObjectionOptions, isTtsEnabled,
                   speakClosureConfig, fnVars, evalVars, hookVars>>
    /\ Render(Settle(clearReplayBuffer(cancel(audio))))

\* Lines 543-561: askProfessor returns or throws.
ProfessorAnswers(ok) ==
    /\ stream.kind = "professor"
    /\ stream.pc = "askProfessor"
    /\ chatHistory' = Append(chatHistory,
                             Message(PROFESOR, IF ok THEN ProfessorAnswerText
                                               ELSE ProfessorErrorText))
    /\ isLoading' = FALSE
    /\ stream' = [stream EXCEPT !.pc = "completed"]
    /\ UNCHANGED <<simulationState, simulationConfig, turnManagerRef, chatSessionRef,
                   currentTurn, isObjectionPhase, showObjectionOptions, isTtsEnabled,
                   speakClosureConfig, historyLengthBeforeLoadingRef, requestsLeft,
                   fnVars, evalVars, hookVars>>
    /\ Render(audio)

\* Lines 576-581 with sendSystemMessage (508-512).
handleNoObjection ==
    /\ simulationState \in {"STARTED", "ENDED"}
    /\ isObjectionPhase
    /\ ~InFlight
    /\ requestsLeft > 0
    /\ isObjectionPhase' = FALSE
    /\ showObjectionOptions' = FALSE
    /\ IF chatSessionRef = NULL
       THEN UNCHANGED <<historyLengthBeforeLoadingRef, isLoading, stream,
                        requestsLeft, currentTurn>>
       ELSE processAIStreamBegin(FALSE)
    /\ UNCHANGED <<simulationState, simulationConfig, turnManagerRef, chatSessionRef,
                   chatHistory, isTtsEnabled, speakClosureConfig, fnVars, evalVars, hookVars>>
    /\ Render(Settle(cancel(audio)))

\* Lines 583-585.
handleMakeObjection ==
    /\ simulationState \in {"STARTED", "ENDED"}
    /\ isObjectionPhase
    /\ ~showObjectionOptions
    /\ showObjectionOptions' = TRUE
    /\ UNCHANGED <<simulationState, simulationConfig, turnManagerRef, chatSessionRef,
                   chatHistory, isLoading, currentTurn, isObjectionPhase,
                   isTtsEnabled, speakClosureConfig, historyLengthBeforeLoadingRef,
                   stream, requestsLeft, fnVars, evalVars, hookVars>>
    /\ Render(audio)

\* Lines 587-610.
handleSelectObjection ==
    /\ simulationState \in {"STARTED", "ENDED"}
    /\ isObjectionPhase
    /\ showObjectionOptions
    /\ ~InFlight
    /\ requestsLeft > 0
    /\ isObjectionPhase' = FALSE
    /\ showObjectionOptions' = FALSE
    /\ IF chatSessionRef = NULL \/ simulationConfig = NULL
       THEN /\ UNCHANGED <<chatHistory, historyLengthBeforeLoadingRef, isLoading,
                           stream, requestsLeft, currentTurn>>
            /\ UNCHANGED <<simulationState, simulationConfig, turnManagerRef,
                           chatSessionRef, isTtsEnabled, speakClosureConfig, fnVars, evalVars, hookVars>>
            /\ Render(audio)
       ELSE /\ chatHistory' = Append(chatHistory,
                                     Message(simulationConfig, ObjectionText))
            /\ processAIStreamBegin(TRUE)
            /\ UNCHANGED <<simulationState, simulationConfig, turnManagerRef,
                           chatSessionRef, isTtsEnabled, speakClosureConfig, fnVars, evalVars, hookVars>>
            /\ Render(Settle(cancel(audio)))

\* An auto-advance effect that looks for the human's turn instead of an AI
\* role's.
AutoAdvanceOnUserTurn ==
    /\ simulationState = "STARTED"
    /\ ~isLoading
    /\ currentTurn # NULL
    /\ turnManagerRef # NULL
    /\ isUserSpeaker(turnManagerRef, currentTurn)
    /\ chatSessionRef # NULL
    /\ ~InFlight
    /\ requestsLeft > 0
    /\ processAIStreamBegin(FALSE)
    /\ UNCHANGED <<simulationState, simulationConfig, turnManagerRef, chatSessionRef,
                   chatHistory, isObjectionPhase, showObjectionOptions, isTtsEnabled,
                   speakClosureConfig, fnVars, evalVars, hookVars>>
    /\ Render(audio)

\* Lines 197-207: the 500 ms timer of the auto-advance effect elapses while
\* its condition still holds, and sendSystemMessage("") runs.
AutoAdvance ==
    /\ simulationState = "STARTED"
    /\ ~isLoading
    /\ currentTurn # NULL
    /\ turnManagerRef # NULL
    /\ isAISpeaker(turnManagerRef, currentTurn)
    /\ chatSessionRef # NULL
    /\ ~InFlight
    /\ requestsLeft > 0
    /\ processAIStreamBegin(FALSE)
    /\ UNCHANGED <<simulationState, simulationConfig, turnManagerRef, chatSessionRef,
                   chatHistory, isObjectionPhase, showObjectionOptions, isTtsEnabled,
                   speakClosureConfig, fnVars, evalVars, hookVars>>
    /\ Render(audio)

(***************************************************************************)
(* SpecStream: one exchange of a started simulation at rest (the human's   *)
(* turn, an AI turn about to auto-advance, or the objection phase), for    *)
(* every response of at most MaxStreamLen tokens, every way of cutting it  *)
(* into chunks, and every point at which the transport may fail or stall.  *)
(***************************************************************************)
MaxStreamLen == 3

StreamAlphabet ==
    {"[JUEZ", "[DEFENSA", TagClose, "hola", WS, PAUSA, "[TURNO: Defensa]", FIN}

StreamTexts == TextsUpTo(StreamAlphabet, MaxStreamLen)

InitStream ==
    /\ simulationState = "STARTED"
    /\ turnManagerRef \in UserRoles
    /\ simulationConfig = turnManagerRef
    /\ chatSessionRef \in {"ok", "none"}
    /\ chatHistory = <<Message(JUEZ, <<"hola">>)>>
    /\ isLoading = FALSE
    /\ \E rest \in {"user", "ai", "objection"} :
          /\ currentTurn = CASE rest = "user" -> turnManagerRef
                             [] rest = "ai" -> JUEZ
                             [] OTHER -> NULL
          /\ isObjectionPhase = (rest = "objection")
    /\ showObjectionOptions = FALSE
    /\ isSpeaking = FALSE
    /\ isTtsEnabled = TRUE
    /\ speakClosureConfig = NULL
    /\ historyLengthBeforeLoadingRef = 0
    /\ prevIsLoadingRef = FALSE
    /\ stream = [NoStream EXCEPT !.kind = "start", !.pc = "completed"]
    /\ requestsLeft = 1
    /\ audio = AudioInit
    /\ evaluation = NULL
    /\ evaluationCall = "none"
    /\ speech = SpeechInit
    /\ fnArgs = <<>>
    /\ fnRet = <<>>
    /\ fnDone = FALSE

NextStream ==
    \/ \E isMetaQuestion \in BOOLEAN : submitMessage(isMetaQuestion)
    \/ \E ok \in BOOLEAN : ProfessorAnswers(ok)
    \/ handleNoObjection
    \/ handleMakeObjection
    \/ handleSelectObjection
    \/ AutoAdvance
    \/ ObtainStream(StreamTexts)
    \/ TimeoutFires
    \/ StreamChunk
    \/ StreamDone
    \/ StreamThrows

SpecStream == InitStream /\ [][NextStream]_vars

\* A step in which a processAIStream call leaves through its catch block.
StreamFails ==
    /\ stream.kind = "continue"
    /\ stream.pc \in {"awaitStream", "streaming"}
    /\ stream'.pc = "failed"

\* A step in which a processAIStream call returns without having thrown.
StreamCompletes ==
    /\ stream.kind = "continue"
    /\ stream.pc = "streaming"
    /\ stream'.pc = "completed"

NoTag(text) == TagPositions(text) = {}

\* C5: when obtaining or consuming the stream inside processAIStream throws,
\* exactly one Judge-attributed error utterance is appended to the history,
\* currentTurn becomes the human's bound role and isLoading is false.
C5_ThrowRestoresTurn ==
    [][StreamFails =>
          /\ \E errorMsg \in {StreamErrorText, TimeoutErrorText} :
                chatHistory' = Append(chatHistory, Message(JUEZ, errorMsg))
          /\ currentTurn' = turnManagerRef
          /\ ~isLoading']_vars

\* The stream threw after a chunk had been shown.
C5_Witness ==
    /\ stream.kind = "continue"
    /\ stream.pc = "failed"
    /\ stream.accumulatedText # <<>>
    /\ chatHistory[Len(chatHistory)] = Message(JUEZ, StreamErrorText)
    /\ currentTurn = turnManagerRef
    /\ ~isLoading

\* C6: once the timeout of a processAIStream call has elapsed, the call is
\* no longer waiting for the model: the failure path has run and the state
\* has left LOADING.
C6_TimeoutEndsWait ==
    (stream.kind = "continue" /\ stream.timer = "fired")
        => (stream.pc \notin {"awaitStream", "streaming"} /\ ~isLoading)

\* C8: after every exchange processAIStream completes without throwing, the
\* history holds at least one utterance after the last committed point.
C8_NoGap ==
    (stream.kind = "continue" /\ stream.pc = "completed")
        => Len(chatHistory) > stream.userMessageIndex + 1

\* C9 as stated: for every completed response whose text is non-empty and
\* holds no recognized tag, parseAIResponse returns an empty list and
\* processAIStream appends exactly one Judge utterance carrying the whole
\* text after the last committed point.
C9_AsStated ==
    [][(StreamCompletes /\ stream.accumulatedText # <<>>
            /\ NoTag(stream.accumulatedText))
        => /\ parseAIResponse(stream.accumulatedText) = <<>>
           /\ chatHistory' = Append(Slice(chatHistory, stream.userMessageIndex + 1),
                                    Message(JUEZ, stream.accumulatedText))]_vars

\* The text as the chunk handler parses it, the trailing directive aside.
Unmarked(text) == RemoveFirstOf(RemoveFirstOf(text, StageTokens), {PAUSA})

\* C9 amended: for every completed response whose text has a character that
\* is not white space and holds no recognized tag, also not once its stage
\* marker and its first objection-pause marker are taken out, parseAIResponse
\* returns an empty list and processAIStream appends exactly one Judge
\* utterance carrying the whole text after the last committed point.
C9_FallbackWholeText ==
    [][(StreamCompletes /\ Trim(stream.accumulatedText) # <<>>
            /\ NoTag(stream.accumulatedText)
            /\ NoTag(Unmarked(stream.accumulatedText)))
        => /\ parseAIResponse(stream.accumulatedText) = <<>>
           /\ chatHistory' = Append(Slice(chatHistory, stream.userMessageIndex + 1),
                                    Message(JUEZ, stream.accumulatedText))]_vars

\* A tagless response with white space at its end became the fallback.
C9_Witness ==
    /\ stream.kind = "continue"
    /\ stream.pc = "completed"
    /\ NoTag(stream.accumulatedText)
    /\ Len(stream.accumulatedText) >= 2
    /\ stream.accumulatedText[Len(stream.accumulatedText)] = WS
    /\ Trim(stream.accumulatedText) # <<>>
    /\ Len(chatHistory) = stream.userMessageIndex + 2
    /\ chatHistory[Len(chatHistory)] = Message(JUEZ, stream.accumulatedText)

(***************************************************************************)
(* App.tsx:255-326: handleStartSimulation                                  *)
(***************************************************************************)
\* Lines 256-281, up to the await of generateDynamicContext.
handleStartSimulation(userRole) ==
    /\ simulationState = "INITIAL"
    /\ ~InFlight
    /\ requestsLeft > 0
    /\ turnManagerRef' = userRole
    /\ simulationConfig' = userRole
    /\ historyLengthBeforeLoadingRef' = 0
    /\ isLoading' = TRUE
    /\ simulationState' = "LOADING"
    /\ chatHistory' = <<>>
    /\ stream' = [NoStream EXCEPT !.kind = "start", !.pc = "context"]
    /\ requestsLeft' = requestsLeft - 1
    /\ UNCHANGED <<chatSessionRef, currentTurn, isObjectionPhase,
                   showObjectionOptions, isTtsEnabled, speakClosureConfig, fnVars, evalVars, hookVars>>
    /\ Render(Settle(resetQueue(cancel(audio))))

\* Lines 282-294: the context has arrived; startChatSession
\* (check_models.js:159-222) creates the session, whose id is not known
\* before the response headers are, and the first next() sends the request.
ContextResolves(texts) ==
    /\ stream.kind = "start"
    /\ stream.pc = "context"
    /\ chatSessionRef' = "pending"
    /\ simulationState' = "STARTED"
    /\ \E response \in texts :
          stream' = [stream EXCEPT !.pc = "startFetch", !.response = response]
    /\ UNCHANGED <<simulationConfig, turnManagerRef, chatHistory, isLoading,
                   currentTurn, isObjectionPhase, showObjectionOptions,
                   isTtsEnabled, speakClosureConfig, historyLengthBeforeLoadingRef,
                   requestsLeft, fnVars, evalVars, hookVars>>
    /\ Render(audio)

\* The response headers arrive, with or without a session id.
StartFetchResponds(hasSessionId) ==
    /\ stream.kind = "start"
    /\ stream.pc = "startFetch"
    /\ chatSessionRef' = IF hasSessionId THEN "ok" ELSE "none"
    /\ stream' = [stream EXCEPT !.pc = "streaming"]
    /\ UNCHANGED <<simulationState, simulationConfig, turnManagerRef, chatHistory,
                   isLoading, currentTurn, isObjectionPhase, showObjectionOptions,
                   isTtsEnabled, speakClosureConfig, historyLengthBeforeLoadingRef,
                   requestsLeft, fnVars, evalVars, hookVars>>
    /\ Render(audio)

\* Lines 318-325: generateDynamicContext, the request or a read fails.  A
\* failed request leaves the session without an id.
StartThrows ==
    /\ stream.kind = "start"
    /\ stream.pc \in {"context", "startFetch", "streaming"}
    /\ chatSessionRef' = IF stream.pc = "startFetch" THEN "none" ELSE chatSessionRef
    /\ chatHistory' = <<Message(JUEZ, StartErrorText)>>
    /\ simulationState' = "INITIAL"
    /\ isLoading' = FALSE
    /\ stream' = [stream EXCEPT !.pc = "failed"]
    /\ UNCHANGED <<simulationConfig, turnManagerRef, currentTurn, isObjectionPhase,
                   showObjectionOptions, isTtsEnabled, speakClosureConfig,
                   historyLengthBeforeLoadingRef, requestsLeft, fnVars, evalVars, hookVars>>
    /\ Render(audio)

\* Lines 294-307: one iteration of the for-await loop.
StartChunk ==
    /\ stream.kind = "start"
    /\ stream.pc = "streaming"
    /\ \E k \in (Len(stream.accumulatedText) + 1)..Len(stream.response) :
          /\ stream' = [stream EXCEPT !.accumulatedText = SubSeq(stream.response, 1, k)]
          /\ chatHistory' = ParsedSoFar(SubSeq(stream.response, 1, k))
    /\ UNCHANGED <<simulationState, simulationConfig, turnManagerRef, chatSessionRef,
                   isLoading, currentTurn, isObjectionPhase, showObjectionOptions,
                   isTtsEnabled, speakClosureConfig, historyLengthBeforeLoadingRef,
                   requestsLeft, fnVars, evalVars, hookVars>>
    /\ Render(audio)

\* Lines 309-316 and the finally: the stream has ended.
StartDone ==
    /\ stream.kind = "start"
    /\ stream.pc = "streaming"
    /\ stream.accumulatedText = stream.response
    /\ IF IncludesPausa(stream.accumulatedText)
       THEN /\ isObjectionPhase' = TRUE
            /\ showObjectionOptions' = FALSE
            /\ currentTurn' = NULL
       ELSE /\ currentTurn' = parseTurnAndCleanText(stream.accumulatedText).nextTurn
            /\ UNCHANGED <<isObjectionPhase, showObjectionOptions>>
    /\ isLoading' = FALSE
    /\ stream' = [stream EXCEPT !.pc = "completed"]
    /\ UNCHANGED <<simulationState, simulationConfig, turnManagerRef, chatSessionRef,
                   chatHistory, isTtsEnabled, speakClosureConfig,
                   historyLengthBeforeLoadingRef, requestsLeft, fnVars, evalVars, hookVars>>
    /\ Render(audio)

\* Lines 678-684.  The render that follows re-creates
\* speakMessagesSequentially, which captures the current simulationConfig.
handleMuteToggle ==
    /\ simulationState \in {"STARTED", "ENDED"}
    /\ isTtsEnabled' = ~isTtsEnabled
    /\ speakClosureConfig' = simulationConfig
    /\ UNCHANGED <<simulationState, simulationConfig, turnManagerRef, chatSessionRef,
                   chatHistory, isLoading, currentTurn, isObjectionPhase,
                   showObjectionOptions, historyLengthBeforeLoadingRef, stream,
                   requestsLeft, fnVars, evalVars, hookVars>>
    /\ Render(setMuted(audio, isTtsEnabled))

(***************************************************************************)
(* services/audioService.ts: what the network and the audio element do     *)
(***************************************************************************)
\* The service moves to a; the App hears of it through its listener only.
AudioStep(a) ==
    /\ audio' = a
    /\ isSpeaking' = a.lastNotified
    /\ UNCHANGED <<simulationState, simulationConfig, turnManagerRef, chatSessionRef,
                   chatHistory, isLoading, currentTurn, isObjectionPhase,
                   showObjectionOptions, isTtsEnabled, speakClosureConfig,
                   historyLengthBeforeLoadingRef, prevIsLoadingRef, stream,
                   requestsLeft, fnVars, evalVars, hookVars>>

\* What the requests of one generateSpeechWithRetry call do: the first n
\* fail in one of the three ways, the following ones succeed.
SynthOutcomes ==
    {[k \in 1..(maxRetries + 1) |-> IF k <= n THEN f ELSE "ok"] :
        n \in 0..(maxRetries + 1), f \in FetchOutcome \ {"ok"}}

\* generateSpeechWithRetry, awaited by processQueue (line 552), returns.
AudioSynthDone(outcomes) ==
    /\ audio.loop.pc = "synth"
    /\ AudioStep(LoopAfterSynth(audio,
           generateSpeechWithRetry(audio.loop.cur.speaker, outcomes).ok))

\* generateSpeechWithRetry, awaited by preloadNextAudio (line 618), returns.
AudioPreloadDone(outcomes) ==
    /\ audio.preload # NoItem
    /\ AudioStep(PreloadAfterSynth(audio,
           generateSpeechWithRetry(audio.preload.speaker, outcomes).ok))

\* The timer of sleep(100) fires: the loop tests isPaused again.
AudioSleepDone ==
    /\ audio.loop.pc = "sleep"
    /\ AudioStep(LoopPauseCheck(audio))

\* The play() of an element succeeds: sound is coming out.
AudioPlayStarted ==
    \E e \in Elements(audio) :
        /\ e.state = "starting"
        /\ e.loadable
        /\ AudioStep(IF e = audio.currentAudio
                     THEN [audio EXCEPT !.currentAudio.state = "playing"]
                     ELSE [audio EXCEPT !.orphans =
                              (@ \ {e}) \cup {[e EXCEPT !.state = "playing"]}])

\* onended, onerror or a play() rejected for its source: the element's
\* cleanup runs.
AudioEnded ==
    \E e \in Elements(audio) :
        /\ e.state \in {"starting", "playing"}
        /\ AudioStep(cleanup(audio, e.id))

(***************************************************************************)
(* SpecApp: the application from its construction, the model answering     *)
(* with one of AppTexts, for at most MaxRequests requests.                 *)
(***************************************************************************)
MaxRequests == 2

AppTexts ==
    {<<"[JUEZ", TagClose, "hola", "[TURNO: Defensa]">>,
     <<"[MINISTERIO PÚBLICO", TagClose, "hola", PAUSA>>,
     <<"[JUEZ", TagClose, "hola", "[TESTIGO", TagClose, "hola">>,
     <<"[JUEZ", TagClose, FIN>>,
     <<"[JUEZ", TagClose, InstructedFIN>>}

InitApp ==
    /\ AppConstructed
    /\ turnManagerRef = NULL
    /\ requestsLeft = MaxRequests
    /\ fnArgs = <<>>
    /\ fnRet = <<>>
    /\ fnDone = FALSE

NextApp ==
    \/ \E userRole \in UserRoles : handleStartSimulation(userRole)
    \/ ContextResolves(AppTexts)
    \/ \E hasSessionId \in BOOLEAN : StartFetchResponds(hasSessionId)
    \/ StartThrows
    \/ StartChunk
    \/ StartDone
    \/ \E isMetaQuestion \in BOOLEAN : submitMessage(isMetaQuestion)
    \/ \E ok \in BOOLEAN : ProfessorAnswers(ok)
    \/ handleNoObjection
    \/ handleMakeObjection
    \/ handleSelectObjection
    \/ AutoAdvance
    \/ ObtainStream(AppTexts)
    \/ TimeoutFires
    \/ StreamChunk
    \/ StreamDone
    \/ StreamThrows
    \/ handleMuteToggle
    \/ \E outcomes \in SynthOutcomes : AudioSynthDone(outcomes)
    \/ \E outcomes \in SynthOutcomes : AudioPreloadDone(outcomes)
    \/ AudioPlayStarted
    \/ AudioEnded

SpecApp == InitApp /\ [][NextApp]_vars

\* C4: after every completed exchange, the initial response of
\* handleStartSimulation as well as a continuation of processAIStream, whose
\* text has no objection-pause marker and no termination phrase, currentTurn
\* is a speaker; it is the human's bound role when the text has no trailing
\* turn directive.
C4_TurnResolved ==
    (/\ stream.kind \in {"start", "continue"}
     /\ stream.pc = "completed"
     /\ ~IncludesPausa(stream.accumulatedText)
     /\ ~EndsWithTermination(stream.accumulatedText))
        => /\ currentTurn # NULL
           /\ parseTurnAndCleanText(stream.accumulatedText).nextTurn = NULL
                 => currentTurn = turnManagerRef

\* Nothing is queued, synthesized or played, and nothing will be unless
\* speak() is called again.
AudioIdle ==
    /\ ~audio.isPlaying
    /\ audio.currentAudio = NoAudio
    /\ audio.queue = <<>>
    /\ audio.loop.pc = "idle"
    /\ audio.preload = NoItem
    /\ audio.orphans = {}

\* C7: in a started simulation, when currentTurn is the human's bound role,
\* no call is in flight, the objection phase is off and the audio service
\* is silent and idle, the computed turn state is USER_TURN.
C7_InteractivityRestored ==
    (/\ simulationState = "STARTED"
     /\ turnManagerRef # NULL
     /\ currentTurn = turnManagerRef
     /\ ~InFlight
     /\ ~isLoading
     /\ ~isObjectionPhase
     /\ AudioIdle)
        => computedTurnState = USER_TURN

(***************************************************************************)
(* SpecAudio: the audio service alone, its public methods called in any    *)
(* order between the events of the network, the timer and the audio        *)
(* elements, for at most MaxItems queue items and MaxWaits pending         *)
(* waitForQueueCompletion promises.                                        *)
(***************************************************************************)
MaxItems == 2

MaxWaits == 1

\* A text with something to say and one that cleanTextForSpeech empties.
AudioTexts == {<<"hola">>, <<PAUSA>>}

InitAudio ==
    /\ AppConstructed
    /\ turnManagerRef = NULL
    /\ requestsLeft = 0
    /\ fnArgs = <<>>
    /\ fnRet = <<>>
    /\ fnDone = FALSE

\* A method of the service is called from a task of its own; a is the state
\* when the method returns.
ApiCall(a) == AudioStep(Settle(a))

Speak(text) ==
    /\ audio.nextId <= MaxItems
    /\ ApiCall(speak(audio, text, JUEZ, audio.nextId))

Pause ==
    /\ ApiCall(pause(audio))

Resume ==
    /\ ApiCall(resume(audio))

SkipCurrent ==
    /\ ApiCall(skipCurrent(audio))

Cancel ==
    /\ ApiCall(cancel(audio))

ReplayLastTurn ==
    /\ audio.nextId + Len(audio.replayBuffer) <= MaxItems + 1
    /\ ApiCall(replayLastTurn(audio))

SetMuted(muted) ==
    /\ ApiCall(setMuted(audio, muted))

WaitForQueueCompletion ==
    /\ audio.unresolved < MaxWaits
    /\ ApiCall(waitForQueueCompletion(audio))

ResetQueue ==
    /\ ApiCall(resetQueue(audio))

NextAudio ==
    \/ \E text \in AudioTexts : Speak(text)
    \/ Pause
    \/ Resume
    \/ SkipCurrent
    \/ Cancel
    \/ ReplayLastTurn
    \/ \E muted \in BOOLEAN : SetMuted(muted)
    \/ WaitForQueueCompletion
    \/ ResetQueue
    \/ \E outcomes \in SynthOutcomes : AudioSynthDone(outcomes)
    \/ \E outcomes \in SynthOutcomes : AudioPreloadDone(outcomes)
    \/ AudioSleepDone
    \/ AudioPlayStarted
    \/ AudioEnded

SpecAudio == InitAudio /\ [][NextAudio]_vars

\* The ids of the items in a queue or buffer, in its order.
Ids(q) == [k \in 1..Len(q) |-> q[k].id]

\* C11: narration items start playback in the order they were enqueued
\* (queue ids are handed out in enqueue order): of two items that are both
\* played, the one enqueued first is played first, also when the later
\* item's audio was synthesized ahead of time.
C11_PlayedInEnqueueOrder ==
    \A i, j \in 1..Len(audio.playLog) :
        i < j => audio.playLog[i] < audio.playLog[j]

\* The later item's audio has been synthesized by a preload while the item
\* enqueued before it is still playing: the later one has not started.
C11_Witness ==
    /\ audio.playLog = <<1>>
    /\ audio.currentAudio.id = 1
    /\ audio.currentAudio.state = "playing"
    /\ Ids(audio.queue) = <<1, 2>>
    /\ audio.queue[2].audioUrl \in audio.liveUrls
    /\ audio.preload = NoItem

\* The elements sound is coming out of.
Sounding(a) == {e \in Elements(a) : e.state = "playing"}

\* C12: at every moment at most one processQueue loop is active and at most
\* one audio element is sounding, under every interleaving of speak, pause,
\* resume, skipCurrent, cancel and replayLastTurn with the loop.
C12_OneLoopOneSound ==
    /\ audio.loops <= 1
    /\ Cardinality(Sounding(audio)) <= 1

\* C13: whenever cancel() is called, in the state it returns in the queue is
\* empty, nothing is playing (the flag is off, no element is referred to and
\* no element sounds), the service is not paused, and no promise of
\* waitForQueueCompletion is left unresolved.
C13_CancelStopsEverything ==
    LET a == cancel(audio)
    IN  /\ a.queue = <<>>
        /\ ~a.isPlaying
        /\ a.currentAudio = NoAudio
        /\ Sounding(a) = {}
        /\ ~a.isPaused
        /\ a.queueCompletionCallbacks = 0
        /\ a.unresolved = 0

\* playAudio has been called for the item with this id.
Started(a, id) == \E k \in 1..Len(a.playLog) : a.playLog[k] = id

\* C14: an item that was in the queue when cancel() was called does not
\* start playback afterwards, whatever the loop was suspended on.
C14_CancelledNeverPlayed ==
    [][\A id \in audio.cancelled : Started(audio', id) => Started(audio, id)]_vars

\* The queue q without the item that has this id.
Without(q, id) == SelectSeq(q, LAMBDA item : item.id # id)

\* The call of generateSpeechWithRetry the loop awaits returns null.
SynthesisFails(outcomes) ==
    /\ AudioSynthDone(outcomes)
    /\ ~generateSpeechWithRetry(audio.loop.cur.speaker, outcomes).ok

\* C15: a synthesis is given up after at most maxRetries + 1 requests; when
\* the loop's synthesis of an item fails, the item is counted as failed, it
\* and nothing else leaves the queue, and the loop goes on with the item
\* that follows (or ends when there is none).
C15_FailureSkipsOnlyTheItem ==
    /\ \A speaker \in Speaker, outcomes \in [1..(maxRetries + 1) -> FetchOutcome] :
          generateSpeechWithRetry(speaker, outcomes).attempts <= maxRetries + 1
    /\ [][\A outcomes \in SynthOutcomes :
            SynthesisFails(outcomes) =>
                /\ audio'.failedDialogues = audio.failedDialogues + 1
                /\ Ids(audio'.queue) = Ids(Without(audio.queue, audio.loop.cur.id))
                /\ IF audio'.queue = <<>> THEN audio'.loop.pc = "idle"
                   ELSE /\ audio'.loop.cur.id = audio'.queue[1].id
                        /\ audio'.loop.pc \in {"sleep", "synth", "playing"}]_vars

\* The processQueue loop has returned and nothing is queued.
LoopIdle == audio.loop.pc = "idle" /\ audio.queue = <<>>

\* Every id handed out so far is counted in totalQueuedDialogues (the
\* counters have not been reset since) and no queued item was cancelled.
LeftToRun ==
    /\ audio.totalQueuedDialogues = audio.nextId - 1
    /\ audio.cancelled = {}

\* C16: when N items have been enqueued and the loop, left to run, has gone
\* idle, completedDialogues + failedDialogues = N = totalQueuedDialogues.
C16_AllItemsAccounted ==
    (LoopIdle /\ LeftToRun) =>
        audio.completedDialogues + audio.failedDialogues = audio.totalQueuedDialogues

\* Two items were enqueued; one was played to its end and the synthesis of
\* the other failed; the loop is idle.
C16_Witness ==
    /\ LoopIdle
    /\ LeftToRun
    /\ audio.totalQueuedDialogues = 2
    /\ audio.completedDialogues = 1
    /\ audio.failedDialogues = 1

\* C17: a promise of waitForQueueCompletion is resolved at once when nothing
\* is queued, and otherwise when the queue has drained or been cancelled:
\* once the loop is idle and the queue empty no such promise is pending,
\* also when a cancel, resetQueue or replayLastTurn happened earlier.
C17_NoWaitPendingWhenIdle ==
    LoopIdle => /\ audio.unresolved = 0
                /\ waitForQueueCompletion(audio).unresolved = 0

\* C18: a call of setMuted sets the mute flag and the volume of the current
\* element and nothing else: the queue, the loop's position, the elements'
\* playback state, the pause flag, the counters and the replay buffer after
\* the call are those before it.
C18_MuteChangesOnlyVolume ==
    [][\A muted \in BOOLEAN :
          SetMuted(muted) =>
              /\ audio'.isMuted = muted
              /\ audio'.currentAudio # NoAudio =>
                    audio'.currentAudio.volume = IF muted THEN 0 ELSE 1
              /\ [audio' EXCEPT !.isMuted = audio.isMuted,
                                !.currentAudio.volume = audio.currentAudio.volume]
                    = audio]_vars

\* The output is muted while an item sounds and another one waits behind it.
C18_Witness ==
    /\ audio.isMuted
    /\ audio.currentAudio.state = "playing"
    /\ audio.currentAudio.volume = 0
    /\ Len(audio.queue) = 2
    /\ audio.loop.pc = "playing"

\* C19: whenever skipCurrent is called, it ends the item the loop is playing
\* and only that one: in the state the call leaves, the loop has left that
\* item, the other queued items are in the queue in their order, the loop is
\* on the first of them, and when no other item was queued the playing state
\* has been reported false.
C19_SkipEndsOnlyCurrent ==
    LET a == Settle(skipCurrent(audio))
    IN  /\ audio.loop.pc = "playing" =>
              /\ a.loop.cur.id # audio.loop.cur.id
              /\ Ids(a.queue) = Ids(Without(audio.queue, audio.loop.cur.id))
              /\ a.queue # <<>> => a.loop.cur.id = a.queue[1].id
        /\ (audio.currentAudio # NoAudio /\ Len(audio.queue) <= 1) =>
              ~a.isPlaying /\ ~a.lastNotified

\* C20: whenever replayLastTurn is called with a non-empty replay buffer, in
\* the state the call leaves the queue holds one copy of each buffer item, in
\* buffer order, under ids not used before and with the text, speaker and
\* message id of the original; the loop is active on the first of them, and
\* every copy has audio to be played from (none yet, or a live object URL).
C20_ReplayQueuesTheBuffer ==
    LET a == Settle(replayLastTurn(audio))
        buffer == audio.replayBuffer
    IN  buffer # <<>> =>
          /\ Len(a.queue) = Len(buffer)
          /\ \A k \in 1..Len(a.queue) :
                /\ k <= Len(buffer)
                /\ a.queue[k].id = audio.nextId + k - 1
                /\ a.queue[k].text = buffer[k].text
                /\ a.queue[k].speaker = buffer[k].speaker
                /\ a.queue[k].messageId = buffer[k].messageId
                /\ a.queue[k].audioUrl = 0 \/ a.queue[k].audioUrl \in a.liveUrls
          /\ a.isProcessingQueue
          /\ a.loop.cur.id = a.queue[1].id

(***************************************************************************)
(* SpecReplay: the audio service narrating up to MaxNarrated items of one  *)
(* text, enough to fill the replay buffer past maxReplaySize, with replay, *)
(* skip and clearReplayBuffer called in between.                           *)
(***************************************************************************)
MaxNarrated == 6

Narrate ==
    /\ audio.nextId <= MaxNarrated
    /\ ApiCall(speak(audio, <<"hola">>, JUEZ, audio.nextId))

ReplayNarrated ==
    /\ audio.nextId + Len(audio.replayBuffer) <= MaxNarrated + 1
    /\ ApiCall(replayLastTurn(audio))

SkipNarrated ==
    /\ ApiCall(skipCurrent(audio))

ClearReplayBuffer ==
    /\ ApiCall(clearReplayBuffer(audio))

NextReplay ==
    \/ Narrate
    \/ ReplayNarrated
    \/ SkipNarrated
    \/ ClearReplayBuffer
    \/ \E outcomes \in SynthOutcomes : AudioSynthDone(outcomes)
    \/ \E outcomes \in SynthOutcomes : AudioPreloadDone(outcomes)
    \/ AudioPlayStarted
    \/ AudioEnded

SpecReplay == InitAudio /\ [][NextReplay]_vars

\* The last n elements of a sequence (all of it when it is shorter).
LastN(s, n) == IF Len(s) <= n THEN s ELSE SubSeq(s, Len(s) - n + 1, Len(s))

\* C21 as stated: the replay buffer never holds more than maxReplaySize
\* items and every item in it has completed its playback (the loop is not
\* still waiting for the playback of an item of the buffer to end).
C21_AsStated ==
    /\ Len(audio.replayBuffer) <= maxReplaySize
    /\ \A k \in 1..Len(audio.replayBuffer) :
          ~(audio.loop.pc = "playing" /\ audio.loop.cur.id = audio.replayBuffer[k].id)

\* C21 amended: the replay buffer never holds more than maxReplaySize items,
\* its items are the items whose playback was begun last, in the order it
\* was begun, and every step that begins playbacks leaves in the buffer the
\* last maxReplaySize of what it held followed by the items just begun.
C21_BufferIsLastStarted ==
    /\ [](/\ Len(audio.replayBuffer) <= maxReplaySize
          /\ Ids(audio.replayBuffer)
                = LastN(audio.playLog, Len(audio.replayBuffer)))
    /\ [][LET begun == SubSeq(audio'.playLog, Len(audio.playLog) + 1,
                              Len(audio'.playLog))
          IN  begun # <<>> =>
                Ids(audio'.replayBuffer)
                   = LastN(Ids(audio.replayBuffer) \o begun, maxReplaySize)]_vars

\* A sixth playback has begun and the first item has left the full buffer.
C21_Witness ==
    /\ Len(audio.playLog) = maxReplaySize + 1
    /\ Ids(audio.replayBuffer) = Tail(audio.playLog)
    /\ audio.loop.pc = "playing"

\* The step appends an utterance the human committed to the history.
HumanCommits ==
    /\ Len(chatHistory') = Len(chatHistory) + 1
    /\ chatHistory'[Len(chatHistory')].speaker = UserRoleOrDefault
    /\ chatHistory'[Len(chatHistory')].text
          \in {UserText, MetaQuestionText, ObjectionText}

\* C22: every step in which the human commits an utterance (a typed
\* message, a meta-question or an objection) leaves the replay buffer empty.
C22_HumanTurnClearsReplay ==
    [][HumanCommits => audio'.replayBuffer = <<>>]_vars

(***************************************************************************)
(* App.tsx:328-343 and 625-676: the evaluation and the reset               *)
(***************************************************************************)
\* Lines 625-650, up to the await of getEvaluation.  The buttons are
\* rendered outside the objection phase and disabled while isLoading.
\* stopSpeech has just run cancel, which sets isQueueActive to false, so
\* the wait of lines 633-643 is never entered.
handleEvaluation ==
    /\ simulationState \in {"STARTED", "ENDED"}
    /\ ~isObjectionPhase
    /\ ~isLoading
    /\ evaluationCall = "none"
    /\ IF simulationConfig = NULL
       THEN UNCHANGED <<historyLengthBeforeLoadingRef, isLoading, simulationState,
                        evaluationCall>>
       ELSE /\ historyLengthBeforeLoadingRef' = Len(chatHistory)
            /\ isLoading' = TRUE
            /\ simulationState' = "EVALUATION"
            /\ evaluationCall' = "pending"
    /\ UNCHANGED <<simulationConfig, turnManagerRef, chatSessionRef, chatHistory,
                   currentTurn, isObjectionPhase, showObjectionOptions,
                   isTtsEnabled, speakClosureConfig, stream, requestsLeft,
                   evaluation, fnVars, hookVars>>
    /\ Render(Settle(cancel(audio)))

\* Lines 664-675: getEvaluation returns or throws.
EvaluationReturns(ok) ==
    /\ evaluationCall = "pending"
    /\ evaluationCall' = "none"
    /\ IF ok
       THEN /\ evaluation' = "received"
            /\ simulationState' = "FINISHED"
       ELSE UNCHANGED <<evaluation, simulationState>>
    /\ isLoading' = FALSE
    /\ UNCHANGED <<simulationConfig, turnManagerRef, chatSessionRef, chatHistory,
                   currentTurn, isObjectionPhase, showObjectionOptions,
                   isTtsEnabled, speakClosureConfig,
                   historyLengthBeforeLoadingRef, stream, requestsLeft, fnVars,
                   hookVars>>
    /\ Render(audio)

\* Lines 328-343.  The button is rendered in the EVALUATION and FINISHED
\* states (1026-1035).
resetSimulation ==
    /\ simulationState \in {"EVALUATION", "FINISHED"}
    /\ simulationState' = "INITIAL"
    /\ simulationConfig' = NULL
    /\ chatHistory' = <<>>
    /\ evaluation' = NULL
    /\ chatSessionRef' = NULL
    /\ UNCHANGED <<turnManagerRef, isLoading, currentTurn, isObjectionPhase,
                   showObjectionOptions, isTtsEnabled, speakClosureConfig,
                   historyLengthBeforeLoadingRef, stream, requestsLeft,
                   evaluationCall, fnVars, hookVars>>
    /\ Render(Settle(resetQueue(cancel(audio))))

(***************************************************************************)
(* SpecSession: the application with the evaluation and the reset, so that *)
(* a session can be left while a result is still awaited.  The speech      *)
(* requests of the narration do not return during the run: the items       *)
(* queued stay in synthesis until a cancel drops them.                     *)
(***************************************************************************)
NextSession ==
    \/ \E userRole \in UserRoles : handleStartSimulation(userRole)
    \/ ContextResolves(AppTexts)
    \/ \E hasSessionId \in BOOLEAN : StartFetchResponds(hasSessionId)
    \/ StartThrows
    \/ StartChunk
    \/ StartDone
    \/ \E isMetaQuestion \in BOOLEAN : submitMessage(isMetaQuestion)
    \/ \E ok \in BOOLEAN : ProfessorAnswers(ok)
    \/ handleNoObjection
    \/ handleMakeObjection
    \/ handleSelectObjection
    \/ AutoAdvance
    \/ ObtainStream(AppTexts)
    \/ TimeoutFires
    \/ StreamChunk
    \/ StreamDone
    \/ StreamThrows
    \/ handleEvaluation
    \/ \E ok \in BOOLEAN : EvaluationReturns(ok)
    \/ resetSimulation

SpecSession == InitApp /\ [][NextSession]_vars

\* The evaluation awaited belongs to a session that was reset since.
StaleEvaluation == evaluationCall = "pending" /\ simulationState # "EVALUATION"

\* The stream awaited belongs to a session that was reset since.
StaleStream ==
    /\ InFlight
    /\ stream.kind \in {"start", "continue"}
    /\ stream.pc # "context"
    /\ chatSessionRef = NULL

\* C23: a step in which the result of a stale call arrives (the evaluation
\* returns or throws, the stream yields, completes, throws or times out)
\* leaves the history, currentTurn, the objection flag, the loading flag and
\* the simulation state as they were.
C23_StaleResultIgnored ==
    [][((StaleEvaluation /\ evaluationCall' = "none")
        \/ (StaleStream /\ stream' # stream))
          => UNCHANGED <<chatHistory, currentTurn, isObjectionPhase, isLoading,
                         simulationState>>]_vars

(***************************************************************************)
(* SpecDirective: parseTurnAndCleanText applied to every text of at most   *)
(* MaxDirectiveLen tokens, among them well-formed directives, directives   *)
(* with another letter case in the keyword or in the label, and a          *)
(* directive for a speaker the pattern does not list.                      *)
(***************************************************************************)
MaxDirectiveLen == 3

DirectiveAlphabet ==
    {"hola", WS, "[ETAPA: Desahogo]", "[TURNO: Juez]", "[TURNO: Ministerio Publico]",
     "[TURNO: juez]", "[turno: Defensa]", "[TURNO: Imputado]"}

InitDirective ==
    /\ AppConstructed
    /\ turnManagerRef = NULL
    /\ requestsLeft = 0
    /\ fnArgs \in TextsUpTo(DirectiveAlphabet, MaxDirectiveLen)
    /\ fnRet = parseTurnAndCleanText(<<>>)
    /\ fnDone = FALSE

ApplyDirective ==
    /\ ~fnDone
    /\ fnRet' = parseTurnAndCleanText(fnArgs)
    /\ fnDone' = TRUE
    /\ UNCHANGED <<appVars, audio, evalVars, hookVars, fnArgs>>

NextDirective == ApplyDirective

SpecDirective == InitDirective /\ [][NextDirective]_vars

\* The keyword and the label written in a token of the form [keyword: label];
\* NULL for any other token.
DirectiveParts(tok) ==
    CASE tok = "[TURNO: Juez]" -> [keyword |-> "TURNO", label |-> "Juez"]
      [] tok = "[TURNO: juez]" -> [keyword |-> "TURNO", label |-> "juez"]
      [] tok = "[TURNO: Ministerio Publico]"
            -> [keyword |-> "TURNO", label |-> "Ministerio Publico"]
      [] tok = "[TURNO: Ministerio Público]"
            -> [keyword |-> "TURNO", label |-> "Ministerio Público"]
      [] tok = "[TURNO: Defensa]" -> [keyword |-> "TURNO", label |-> "Defensa"]
      [] tok = "[turno: Defensa]" -> [keyword |-> "turno", label |-> "Defensa"]
      [] tok = "[TURNO: Testigo]" -> [keyword |-> "TURNO", label |-> "Testigo"]
      [] tok = "[TURNO: Secretario]" -> [keyword |-> "TURNO", label |-> "Secretario"]
      [] tok = "[TURNO: Imputado]" -> [keyword |-> "TURNO", label |-> "Imputado"]
      [] OTHER -> [keyword |-> NULL, label |-> NULL]

\* The speakers whose label equals label up to letter case and diacritics.
LabelSpeakers(label) ==
    {S \in Speaker : normalize(toLowerCase(label)) = normalize(toLowerCase(S))}

\* The tokens of text that have the form of a turn directive.
DirectiveCount(text) ==
    Cardinality({i \in 1..Len(text) : DirectiveParts(text[i]).keyword \in {"TURNO", "turno"}})

\* C24: parseTurnAndCleanText returns nextTurn = S and the text without its
\* last directive exactly when the text, trailing white space aside, ends
\* with a directive whose keyword is exactly TURNO and whose label is the
\* label of speaker S up to letter case and diacritics; otherwise nextTurn
\* is null and the text keeps all its turn directives.
C24_DirectiveResolved ==
    fnDone =>
        LET text == RemoveFirstOf(fnArgs, StageTokens)
            body == TrimRight(text)
            parts == IF body = <<>> THEN DirectiveParts(WS)
                     ELSE DirectiveParts(body[Len(body)])
            owners == IF parts.keyword = "TURNO" THEN LabelSpeakers(parts.label)
                      ELSE {}
        IN  IF owners # {}
            THEN /\ fnRet.nextTurn \in owners
                 /\ fnRet.cleanText = Trim(SubSeq(body, 1, Len(body) - 1))
            ELSE /\ fnRet.nextTurn = NULL
                 /\ DirectiveCount(fnRet.cleanText) = DirectiveCount(fnArgs)

\* C25: applying parseTurnAndCleanText to the cleanText it has returned
\* yields no next turn and returns that cleanText unchanged.
C25_CleanTextIsFixedPoint ==
    fnDone =>
        LET again == parseTurnAndCleanText(fnRet.cleanText)
        IN  /\ again.nextTurn = NULL
            /\ again.cleanText = fnRet.cleanText

\* The speaker of the last recognized tag that ends before position p of
\* text; NULL when no tag precedes p.
TagOwner(text, p) ==
    LET before == {i \in TagPositions(text) : i + 1 < p}
    IN  IF before = {} THEN NULL
        ELSE TagSpeaker(text[CHOOSE i \in before : \A j \in before : j <= i])

\* The positions of the words of text that no human-role tag owns, in a
\* text that has a recognized tag.
UnownedWords(text, tm) ==
    {p \in 1..Len(text) :
        /\ text[p] = "hola"
        /\ TagPositions(text) # {}
        /\ TagOwner(text, p) = NULL \/ ~isUserSpeaker(tm, TagOwner(text, p))}

\* How many words the utterances from the k-th on carry.
RECURSIVE WordsFrom(_, _)
WordsFrom(messages, k) ==
    IF k > Len(messages) THEN 0
    ELSE Cardinality({j \in 1..Len(messages[k].text) : messages[k].text[j] = "hola"})
            + WordsFrom(messages, k + 1)

\* C27: every word of the text that is not owned by a human-role tag is in
\* the text of some utterance parseAIResponse returns: the words before the
\* first tag and the words that follow an utterance without a tag of their
\* own are kept, none is dropped.
C27_NoContentDropped ==
    fnDone => WordsFrom(fnRet, 1) >= Cardinality(UnownedWords(fnArgs, turnManagerRef))

\* The objection-pause marker stands somewhere in the text.
HasMarker(text) == \E i \in 1..Len(text) : text[i] = PAUSA

\* The step completes a response of the model.
ResponseCompletes ==
    /\ stream.pc # "completed"
    /\ stream'.pc = "completed"
    /\ stream'.kind \in {"start", "continue"}

IsHumanUtterance(m) == m.text \in {UserText, MetaQuestionText, ObjectionText}

\* The position of the last human utterance of a history, 0 when it has none.
LastHuman(history) ==
    LET at == {k \in 1..Len(history) : IsHumanUtterance(history[k])}
    IN  IF at = {} THEN 0 ELSE CHOOSE k \in at : \A j \in at : j <= k

\* C28: every step of a processAIStream call that is consuming its stream
\* (a chunk, the fallback or the error utterance at its end) leaves the
\* history up to and including the last human utterance as it was: same
\* speakers, same texts, same order.
C28_HumanPrefixKept ==
    [][(stream.kind = "continue" /\ stream.pc = "streaming")
          => /\ Len(chatHistory') >= LastHuman(chatHistory)
             /\ SubSeq(chatHistory', 1, LastHuman(chatHistory))
                   = SubSeq(chatHistory, 1, LastHuman(chatHistory))]_vars

\* A chunk has put utterances of the response after the human's utterance.
C28_Witness ==
    /\ stream.kind = "continue"
    /\ stream.pc = "streaming"
    /\ stream.accumulatedText # <<>>
    /\ LastHuman(chatHistory) = stream.userMessageIndex + 1
    /\ Len(chatHistory) > LastHuman(chatHistory)

(***************************************************************************)
(* SpecVoice: generateSpeechWithRetry called for every speaker, its        *)
(* requests ending in every combination of outcomes.                       *)
(***************************************************************************)
InitVoice ==
    /\ AppConstructed
    /\ turnManagerRef = NULL
    /\ requestsLeft = 0
    /\ fnArgs \in [speaker : Speaker, outcomes : [1..(maxRetries + 1) -> FetchOutcome]]
    /\ fnRet = [ok |-> FALSE, attempts |-> 0, voices |-> <<>>]
    /\ fnDone = FALSE

ApplyVoice ==
    /\ ~fnDone
    /\ fnRet' = generateSpeechWithRetry(fnArgs.speaker, fnArgs.outcomes)
    /\ fnDone' = TRUE
    /\ UNCHANGED <<appVars, audio, evalVars, hookVars, fnArgs>>

NextVoice == ApplyVoice

SpecVoice == InitVoice /\ [][NextVoice]_vars

\* C29: whatever the speaker, the voice of every request after the first
\* one of a generateSpeechWithRetry call is another voice than the one
\* voiceMap configures for the speaker.
C29_RetryVoiceDiffers ==
    fnDone =>
        \A k \in 2..Len(fnRet.voices) : fnRet.voices[k] # voiceMap[fnArgs.speaker]

(***************************************************************************)
(* SpecListen: the speech recognition hook, started and stopped in any     *)
(* order between the events of its recognizers, for at most MaxRecognizers *)
(* instances and MaxResults result events.                                 *)
(***************************************************************************)
MaxRecognizers == 3

MaxResults == 3

\* The hook moves to s; nothing else changes but what the call does to the
\* audio service.
SpeechStep(s, a) ==
    /\ speech' = s
    /\ audio' = a
    /\ isSpeaking' = a.lastNotified
    /\ UNCHANGED <<simulationState, simulationConfig, turnManagerRef, chatSessionRef,
                   chatHistory, isLoading, currentTurn, isObjectionPhase,
                   showObjectionOptions, isTtsEnabled, speakClosureConfig,
                   historyLengthBeforeLoadingRef, prevIsLoadingRef, stream,
                   requestsLeft, fnVars, evalVars>>

StartListening(startThrows) ==
    /\ Len(speech.recognizers) < MaxRecognizers
    /\ SpeechStep(startListening(speech, startThrows), Settle(cancel(audio)))

StopListening ==
    /\ SpeechStep(stopListening(speech), audio)

RecognizerStarts ==
    \E r \in 1..Len(speech.recognizers) :
        /\ speech.recognizers[r].state = "starting"
        /\ SpeechStep(onstart(speech, r), audio)

\* A recognizer that is running, or winding down after stop(), has a result.
RecognizerResult ==
    \E r \in 1..Len(speech.recognizers) :
        /\ speech.recognizers[r].state \in {"started", "stopping"}
        /\ speech.emitted < MaxResults
        /\ SpeechStep(onresult(speech, r), audio)

RecognizerEnds ==
    \E r \in 1..Len(speech.recognizers) :
        /\ speech.recognizers[r].state \in {"started", "stopping"}
        /\ SpeechStep(onend(speech, r), audio)

RecognizerError ==
    \E r \in 1..Len(speech.recognizers) :
        /\ speech.recognizers[r].state \in {"starting", "started"}
        /\ SpeechStep(onerror(speech, r), audio)

NextListen ==
    \/ \E startThrows \in BOOLEAN : StartListening(startThrows)
    \/ StopListening
    \/ RecognizerStarts
    \/ RecognizerResult
    \/ RecognizerEnds
    \/ RecognizerError

SpecListen == InitAudio /\ [][NextListen]_vars

\* C30: a result reaches onResult only when stopListening has not been
\* called since the last startListening, and only from the recognizer that
\* startListening created last; and stopListening called twice leaves the
\* hook as stopListening called once.
C30_StoppedMeansSilent ==
    /\ [][Len(speech'.delivered) > Len(speech.delivered)
            => /\ ~speech.stopped
               /\ speech'.delivered[Len(speech'.delivered)] = speech.speechRecognitionRef]_vars
    /\ [](stopListening(stopListening(speech)) = stopListening(speech))

\* After a stop and a new start, both the stopped recognizer's late result
\* and a result of the replaced recognizer have been raised and only the
\* results of current recognizers have been delivered.
C30_Witness ==
    /\ speech.late >= 1
    /\ speech.emitted = MaxResults
    /\ Len(speech.delivered) = 1
    /\ Len(speech.recognizers) >= 2
    /\ speech.recognizers[1].state = "stopping"
    /\ ~speech.recognizers[1].handlers
    /\ speech.stopped

(***************************************************************************)
(* The orchestrator and the narration queue together (SpecApp)             *)
(***************************************************************************)
\* C31: human input is never enabled while AI narration is in progress:
\* whenever the narration queue holds an item (waiting, being synthesized or
\* playing), the computed turn state is not USER_TURN.
C31_NoInputWhileNarrating ==
    audio.queue # <<>> => computedTurnState # USER_TURN

\* C32: the orchestrator's isSpeaking flag always equals the audio service's
\* isPlaying: every change of isPlaying, the one made by cancel() and the one
\* made when the processing loop ends included, is delivered to the
\* subscribed playing-state listeners.
C32_SpeakingFollowsPlaying ==
    /\ isSpeaking = audio.isPlaying
    /\ audio.lastNotified = audio.isPlaying

\* The item with this id was put in the queue after a cancel() that emptied
\* a non-empty queue (ids are handed out in enqueue order).
EnqueuedAfterCancel(a, id) == \E c \in a.cancelled : c < id

\* The step takes the item with this id out of the queue although it was
\* neither played, nor given up by the loop after a failed synthesis, nor
\* removed by a cancel().
DroppedUnplayed(id) ==
    /\ \E k \in 1..Len(audio.queue) : audio.queue[k].id = id
    /\ \A k \in 1..Len(audio'.queue) : audio'.queue[k].id # id
    /\ id \notin audio'.cancelled
    /\ ~Started(audio', id)
    /\ ~(/\ audio.loop.pc = "synth"
         /\ audio.loop.cur.id = id
         /\ audio'.failedDialogues = audio.failedDialogues + 1)

\* C33: an item enqueued after a cancel() (by speak or by replayLastTurn) is
\* played or counted as failed: the continuation of the processing loop that
\* was running when cancel was called never removes such an item from the
\* queue unplayed.
C33_EnqueuedAfterCancelKept ==
    [][\A id \in 1..(audio.nextId - 1) :
          EnqueuedAfterCancel(audio, id) => ~DroppedUnplayed(id)]_vars

\* C34: no item starts playback from an object URL that has already been
\* released: every audio element playAudio creates, the ones for the items
\* re-queued by replayLastTurn included, has a live source.
C34_PlayedFromLiveUrl ==
    \A e \in Elements(audio) : e.loadable

\* The queue is idle and no work is in flight: the loop has returned, the
\* queue is empty, no preload is awaiting its synthesis and no element is
\* left that sounds or can raise an event.
QueueAtRest ==
    /\ LoopIdle
    /\ audio.preload = NoItem
    /\ Elements(audio) = {}

\* C35: every object URL created by synthesis is released by the time the
\* queue is idle: after the loop has drained, or after cancel() once the
\* work in flight has returned, no synthesized URL remains unreleased, the
\* ones produced by a preload or a synthesis that was in flight at a cancel,
\* or that ran twice for one item, included.
C35_NoUrlLeftWhenIdle ==
    QueueAtRest => audio.liveUrls = {}

\* C36: in every reachable state of the audio service, completedDialogues +
\* failedDialogues <= totalQueuedDialogues, under every interleaving of
\* speak, cancel, resetQueue, skipCurrent and replayLastTurn with the
\* processing loop.
C36_CountersBounded ==
    audio.completedDialogues + audio.failedDialogues <= audio.totalQueuedDialogues

\* The positions, in history order, of the utterances of h after the first
\* n that are to be narrated: not the Professor's, not the human's (role),
\* and with something left to say once cleanTextForSpeech has run.
RECURSIVE ToNarrate(_, _, _)
ToNarrate(h, n, role) ==
    IF n >= Len(h) THEN <<>>
    ELSE LET rest == ToNarrate(h, n + 1, role)
             m == h[n + 1]
         IN  IF /\ m.speaker # PROFESOR
                /\ m.speaker # role
                /\ cleanTextForSpeech(m.text) # <<>>
             THEN <<n + 1>> \o rest ELSE rest

\* The message ids of the items the step has put in the queue, in queue
\* order (no step that completes an exchange takes an item out).
NewlyQueued ==
    LET q == audio'.queue
        new == audio'.nextId - audio.nextId
    IN  [k \in 1..new |-> q[Len(q) - new + k].messageId]

\* An exchange completes: the call in flight returns and loading ends, the
\* simulation being started or ended.
ExchangeCompletes ==
    /\ isLoading
    /\ ~isLoading'
    /\ simulationState' \in {"STARTED", "ENDED"}

\* C37: every AI utterance (not the Professor's, not one of the human's
\* role) of a completed exchange that has non-empty speakable text is
\* enqueued for narration exactly once, in history order, whether or not
\* the output is muted when the exchange completes.
C37_EveryUtteranceQueuedOnce ==
    [][ExchangeCompletes =>
          LET expected == ToNarrate(chatHistory', historyLengthBeforeLoadingRef',
                                    turnManagerRef')
              wanted == {expected[k] : k \in 1..Len(expected)}
          IN  SelectSeq(NewlyQueued, LAMBDA id : id \in wanted) = expected]_vars

(***************************************************************************)
(* SpecAdvance: SpecApp with the timer of the auto-advance effect firing.  *)
(* The effect (App.tsx:197-207) arms a 500 ms timer whenever its condition *)
(* holds after a render, and clears it only when currentTurn, isLoading or *)
(* simulationState changes: a timer whose condition stays true fires.      *)
(***************************************************************************)
SpecAdvance == InitApp /\ [][NextApp]_vars /\ WF_vars(AutoAdvance)

\* A completed exchange has left the turn with an AI role in a started
\* simulation that is not loading (and the run may make another request).
AdvanceDue ==
    /\ simulationState = "STARTED"
    /\ ~isLoading
    /\ stream.pc = "completed"
    /\ currentTurn # NULL
    /\ turnManagerRef # NULL
    /\ isAISpeaker(turnManagerRef, currentTurn)
    /\ requestsLeft > 0

\* A call of processAIStream has been made and awaits the model's stream.
GenerationTriggered ==
    /\ isLoading
    /\ stream.kind = "continue"
    /\ stream.pc = "awaitStream"

CompletesWithInstructedMarker ==
    /\ stream.kind \in {"start", "continue"}
    /\ stream.pc = "streaming"
    /\ stream'.pc = "completed"
    /\ Trim(stream'.accumulatedText) # <<>>
    /\ Trim(stream'.accumulatedText)[Len(Trim(stream'.accumulatedText))] = InstructedFIN

\* C39: whenever a completed model response ends with the session-
\* termination marker, written in the form the system prompt instructs the
\* model to write it, the simulation state becomes ENDED, for the initial
\* response as well as for continuations.
C39_MarkerEndsSimulation ==
    [][CompletesWithInstructedMarker => simulationState' = "ENDED"]_vars

====
